---- MODULE Spec2Model ----
(***************************************************************************)
(* A model of wry, a WS-Management client for Intel AMT devices.           *)
(*                                                                         *)
(*   src/wry/common.py   the transaction layer (wsman_get/put/enumerate/   *)
(*                       pull/invoke behind _validate and the retry        *)
(*                       decorator), the enumeration pager and the method  *)
(*                       invocation builder                                *)
(*   src/wry/device.py   the capability objects (power, KVM, redirection,  *)
(*                       opt-in, boot) and DeviceCapability.put            *)
(*                                                                         *)
(* The program is synchronous and single threaded.  Each layer is given    *)
(* its own specification over its own variables; the variables of the      *)
(* other layers are parked at a fixed value.                               *)
(***************************************************************************)
EXTENDS Integers, Sequences, FiniteSets

VARIABLES
    \* ---- transaction layer: one decorated wsman_* call
    t_pc,        \* "idle" | "calling" | "returned" | "raised"
    t_op,        \* which of the five operations is running
    t_silent,    \* the silent argument of the call
    t_attempts,  \* transport calls made by this operation so far
    t_fails,     \* how many of them returned no document
    t_last,      \* the last response of the transport
    t_result,    \* what the operation returned or raised
    \* ---- the device's enumeration server and the pager (enumerate_resource)
    pages,       \* the pages the server will serve, in order
    srv_ctx,     \* the EnumerationContext the server issues
    srv_pos,     \* pages served so far
    srv_done,    \* the server has reported end-of-sequence
    e_pc,        \* "start" | "pulling" | "returned" | "raised"
    context,     \* local variable context
    ended,       \* local variable ended
    output,      \* output[resource_name]
    e_error,     \* the exception that left enumerate_resource
    enum_calls,  \* wsman_enumerate calls of this run
    pull_calls,  \* wsman_pull calls of this run
    pull_ctxs,   \* the context tokens the pulls carried
    pull_after_eos,  \* a pull was issued after end-of-sequence was served
    \* ---- the method invocation builder (invoke_method)
    options,     \* the caller's ClientOptions object
    i_pc,        \* "idle" | "returned" | "raised"
    i_req,       \* the invoke request that was sent, if any
    i_reply,     \* the document the transport delivered for it
    i_result,    \* what invoke_method returned or raised
    i_log,       \* the requests made through the same options after it
    \* ---- the device and the capability objects
    dev,         \* the device's resources: resource name -> field -> value
    p_pc,        \* AMTPower: "idle" | "returned" | "raised"
    p_op,        \* the AMTPower method that ran
    p_state,     \* the StateMap the state property decoded, if it was read
    p_reqs,      \* the RequestPowerStateChange requests that were sent
    p_error,     \* the exception that left the method
    k_pc,        \* AMTKVM: "idle" | "loop" | "returned" | "read" | "raised" |
                 \* "got" | "get_raised"
    k_values,    \* the target set, values
    k_ports,     \* local variable ports
    k_enabled,   \* local variable enabled
    k_idx,       \* position of the setter's loop in ports
    k_puts,      \* the puts the setter has issued
    k_error,     \* the exception that left the setter
    k_read,      \* what the enabled getter returned or raised
    k_map,       \* what a read of enabled_ports returned or raised
    r_pc,        \* AMTRedirection: "idle" | "written" | "read" | "read_back" | "raised"
    r_features,  \* the features last written
    r_puts,      \* the puts the enabled_features setter has issued
    r_read,      \* what the enabled_features getter returned or raised
    r_error,     \* the exception that left the setter
    o_pc,        \* AMTOptIn: "idle" | "returned" | "raised"
    o_op,        \* the AMTOptIn setter that ran
    o_value,     \* the value it was given
    o_reqs,      \* the requests the setter has sent
    o_selected,  \* self._consent_values.selected
    o_error,     \* the exception that left the setter
    b_pages,     \* the device's boot sources, as the pages its pulls deliver
    b_service,   \* the ElementName the device's CIM_BootService reports
    b_pc,        \* AMTBoot.medium setter: "idle" | "found" | "ordered" | "returned" | "raised"
    b_value,     \* the medium asked for
    b_instance,  \* local variable instance_id
    b_order,     \* how the invocation of ChangeBootOrder ended
    b_reqs,      \* the requests the setter has sent
    b_error,     \* the exception that left the setter
    c_pc,        \* DeviceCapability.put: "idle" | "returned" | "raised"
    c_args,      \* the arguments of the call
    c_reqs,      \* the requests the call has sent
    c_error      \* the exception that left the call

txnVars == <<t_pc, t_op, t_silent, t_attempts, t_fails, t_last, t_result>>
pagerVars == <<pages, srv_ctx, srv_pos, srv_done, e_pc, context, ended, output,
               e_error, enum_calls, pull_calls, pull_ctxs, pull_after_eos>>
invokeVars == <<options, i_pc, i_req, i_reply, i_result, i_log>>
powerVars == <<p_pc, p_op, p_state, p_reqs, p_error>>
kvmVars == <<k_pc, k_values, k_ports, k_enabled, k_idx, k_puts, k_error, k_read, k_map>>
redirVars == <<r_pc, r_features, r_puts, r_read, r_error>>
optVars == <<o_pc, o_op, o_value, o_reqs, o_selected, o_error>>
bootVars == <<b_pages, b_service, b_pc, b_value, b_instance, b_order, b_reqs, b_error>>
putVars == <<c_pc, c_args, c_reqs, c_error>>
extVars == <<optVars, bootVars, putVars>>
capVars == <<dev, powerVars, kvmVars, redirVars, extVars>>
vars == <<txnVars, pagerVars, invokeVars, capVars>>

(***************************************************************************)
(* Bounds of the model.                                                    *)
(***************************************************************************)
MaxDocs == 2
MaxPages == 3
MaxItems == 2
MaxFeatures == 2

(***************************************************************************)
(* Documents.  The transport returns a document or None.                   *)
(***************************************************************************)
NoDoc == [kind |-> "none", fault |-> FALSE, id |-> 0]

TxnDocs == {[kind |-> "doc", fault |-> f, id |-> i] : f \in BOOLEAN, i \in 1..MaxDocs}

IsNone(doc) == doc.kind = "none"

(***************************************************************************)
(* common._validate                                                        *)
(***************************************************************************)
\* The check for a missing document is left out.
_validate_swallow(doc, silent) ==
    IF ~silent /\ doc.fault
    THEN [outcome |-> "WSManFault", doc |-> doc]
    ELSE [outcome |-> "return", doc |-> doc]

\* The silent flag is ignored: a fault document always raises.
_validate_nosilent(doc, silent) ==
    IF IsNone(doc)
    THEN [outcome |-> "AMTConnectFailure", doc |-> doc]
    ELSE IF doc.fault
         THEN [outcome |-> "WSManFault", doc |-> doc]
         ELSE [outcome |-> "return", doc |-> doc]

\* Both checks sit under "if not silent".
_validate_silent_none(doc, silent) ==
    IF ~silent /\ IsNone(doc)
    THEN [outcome |-> "AMTConnectFailure", doc |-> doc]
    ELSE IF ~silent /\ doc.fault
         THEN [outcome |-> "WSManFault", doc |-> doc]
         ELSE [outcome |-> "return", doc |-> doc]

\* A fault document is reported as a connection failure.
_validate_fault_as_failure(doc, silent) ==
    IF IsNone(doc)
    THEN [outcome |-> "AMTConnectFailure", doc |-> doc]
    ELSE IF ~silent /\ doc.fault
         THEN [outcome |-> "AMTConnectFailure", doc |-> doc]
         ELSE [outcome |-> "return", doc |-> doc]

_validate(doc, silent) ==
    IF IsNone(doc)
    THEN [outcome |-> "AMTConnectFailure", doc |-> doc]
    ELSE IF ~silent /\ doc.fault
         THEN [outcome |-> "WSManFault", doc |-> doc]
         ELSE [outcome |-> "return", doc |-> doc]

(***************************************************************************)
(* The five decorated operations: each hands the transport's response to   *)
(* _validate with the caller's silent flag.                                *)
(***************************************************************************)
wsman_get(doc, silent) == _validate(doc, silent)
\* The pull is validated as a silent one.
wsman_pull_silent(doc, silent) == _validate(doc, TRUE)

wsman_pull(doc, silent) == _validate(doc, silent)

wsman_enumerate(doc, silent) == _validate(doc, silent)
wsman_put(doc, silent) == _validate(doc, silent)
wsman_invoke(doc, silent) == _validate(doc, silent)

Ops == {"get", "put", "enumerate", "pull", "invoke"}

wsman(op, doc, silent) ==
    CASE op = "get" -> wsman_get(doc, silent)
      [] op = "pull" -> wsman_pull(doc, silent)
      [] op = "enumerate" -> wsman_enumerate(doc, silent)
      [] op = "put" -> wsman_put(doc, silent)
      [] op = "invoke" -> wsman_invoke(doc, silent)

(***************************************************************************)
(* wry.decorators.retry: the decorated call is re-issued while it fails    *)
(* with AMTConnectFailure, RETRY_LIMIT transport attempts at most.         *)
(***************************************************************************)
RETRY_LIMIT == 3

retry(v, attempts) == v.outcome = "AMTConnectFailure" /\ attempts < RETRY_LIMIT

TxnIdleResult == [outcome |-> "none", doc |-> NoDoc]

TxnParked ==
    /\ t_pc = "parked"
    /\ t_op = "get"
    /\ t_silent = FALSE
    /\ t_attempts = 0
    /\ t_fails = 0
    /\ t_last = NoDoc
    /\ t_result = TxnIdleResult

TxnInit ==
    /\ t_pc = "idle"
    /\ t_op = "get"
    /\ t_silent = FALSE
    /\ t_attempts = 0
    /\ t_fails = 0
    /\ t_last = NoDoc
    /\ t_result = TxnIdleResult

\* A caller starts one of the five operations.
TxnCall(op, silent) ==
    /\ t_pc = "idle"
    /\ t_pc' = "calling"
    /\ t_op' = op
    /\ t_silent' = silent
    /\ UNCHANGED <<t_attempts, t_fails, t_last, t_result>>
    /\ UNCHANGED <<pagerVars, invokeVars, capVars>>

\* One attempt: the transport call, _validate, and the retry decision.
TransportReply(resp) ==
    /\ t_pc = "calling"
    /\ LET v == wsman(t_op, resp, t_silent)
           n == t_attempts + 1
       IN /\ t_attempts' = n
          /\ t_fails' = t_fails + (IF IsNone(resp) THEN 1 ELSE 0)
          /\ t_last' = resp
          /\ IF retry(v, n)
             THEN /\ t_pc' = "calling"
                  /\ t_result' = t_result
             ELSE /\ t_pc' = (IF v.outcome = "return" THEN "returned" ELSE "raised")
                  /\ t_result' = v
    /\ UNCHANGED <<t_op, t_silent>>
    /\ UNCHANGED <<pagerVars, invokeVars, capVars>>

TxnNext ==
    \/ \E op \in Ops, silent \in BOOLEAN : TxnCall(op, silent)
    \/ \E resp \in TxnDocs \cup {NoDoc} : TransportReply(resp)

(***************************************************************************)
(* The closed form of a decorated call, for the layers above: the          *)
(* transport returns no document on the first k attempts and doc on the    *)
(* next one.                                                               *)
(***************************************************************************)
RECURSIVE wsman_call(_, _, _, _, _)
wsman_call(op, k, doc, silent, made) ==
    LET resp == IF made < k THEN [doc EXCEPT !.kind = "none"] ELSE doc
        v == wsman(op, resp, silent)
    IN IF retry(v, made + 1)
       THEN wsman_call(op, k, doc, silent, made + 1)
       ELSE v

Fails == 0..RETRY_LIMIT

\* The exceptions of _validate.
TransportErrors == {"WSManFault", "AMTConnectFailure"}

(***************************************************************************)
(* The enumeration server of the device.  It issues one context token and  *)
(* serves its pages in order; the last page reports end-of-sequence.       *)
(***************************************************************************)
Tokens == {"ctx-A", "ctx-B"}

\* A page carries between one and MaxItems items and says whether it is the
\* last.
PageShapes == [count : 1..MaxItems, eos : BOOLEAN]

ShapeSeqs == {sh \in UNION {[1..n -> PageShapes] : n \in 1..MaxPages} : sh[Len(sh)].eos}

\* The instances of an enumeration are all different: item j of page i is <<i, j>>.
PageOf(sh, i) == [items |-> [j \in 1..sh[i].count |-> <<i, j>>], eos |-> sh[i].eos]

PageSeqs == {[i \in 1..Len(sh) |-> PageOf(sh, i)] : sh \in ShapeSeqs}

\* The index of the first page that reports end-of-sequence.
FirstEos(ps) == CHOOSE i \in 1..Len(ps) : ps[i].eos /\ \A j \in 1..(i - 1) : ~ps[j].eos

RECURSIVE Concat(_, _)
\* The items of pages 1..n of ps, concatenated in page order.
Concat(ps, n) == IF n = 0 THEN <<>> ELSE Concat(ps, n - 1) \o ps[n].items

(***************************************************************************)
(* WryDict(doc)['PullResponse']['Items'][resource_name]: the instance      *)
(* itself when the page carries one item, the list of instances when it    *)
(* carries several.                                                        *)
(***************************************************************************)
Instance(v) == [kind |-> "instance", val |-> <<v>>]

ItemsValue(items) ==
    IF Len(items) = 1 THEN Instance(items[1]) ELSE [kind |-> "list", val |-> items]

(***************************************************************************)
(* common.enumerate_resource                                               *)
(***************************************************************************)
LoopContinues_always(e) == TRUE

\* while ended is False
LoopContinues(e) == e = "False"

PagerParked ==
    /\ pages = <<>>
    /\ srv_ctx = ""
    /\ srv_pos = 0
    /\ srv_done = FALSE
    /\ e_pc = "parked"
    /\ context = ""
    /\ ended = "False"
    /\ output = <<>>
    /\ e_error = ""
    /\ enum_calls = 0
    /\ pull_calls = 0
    /\ pull_ctxs = {}
    /\ pull_after_eos = FALSE

PagerInit ==
    /\ pages \in PageSeqs
    /\ srv_ctx \in Tokens
    /\ srv_pos = 0
    /\ srv_done = FALSE
    /\ e_pc = "start"
    /\ context = ""
    /\ ended = "False"
    /\ output = <<>>
    /\ e_error = ""
    /\ enum_calls = 0
    /\ pull_calls = 0
    /\ pull_ctxs = {}
    /\ pull_after_eos = FALSE

\* doc = wsman_enumerate(...); context = doc['EnumerateResponse']['EnumerationContext'];
\* ended = False; output = {resource_name: []}
Enumerate(k, fault) ==
    /\ e_pc = "start"
    /\ enum_calls' = enum_calls + 1
    /\ LET doc == [kind |-> "doc", fault |-> fault, ctx |-> srv_ctx]
           r == wsman_call("enumerate", k, doc, FALSE, 0)
       IN IF r.outcome = "return"
          THEN /\ context' = r.doc.ctx
               /\ e_pc' = "pulling"
               /\ e_error' = e_error
          ELSE /\ context' = context
               /\ e_pc' = "raised"
               /\ e_error' = r.outcome
    /\ ended' = "False"
    /\ output' = <<>>
    /\ UNCHANGED <<pages, srv_ctx, srv_pos, srv_done, pull_calls, pull_ctxs, pull_after_eos>>
    /\ UNCHANGED <<txnVars, invokeVars, capVars>>

\* One turn of the loop: doc = wsman_pull(..., context=str(context));
\* ended = response.pop('EndOfSequence', False);
\* output[resource_name].append(response['Items'][resource_name])
Pull(k, fault) ==
    /\ e_pc = "pulling"
    /\ LoopContinues(ended)
    /\ pull_calls' = pull_calls + 1
    /\ pull_ctxs' = pull_ctxs \cup {context}
    /\ pull_after_eos' = (pull_after_eos \/ srv_done)
    /\ LET reached == k < RETRY_LIMIT
           valid == context = srv_ctx /\ ~srv_done /\ srv_pos < Len(pages)
           serves == reached /\ valid /\ ~fault
           doc == IF serves
                  THEN [kind |-> "doc", fault |-> FALSE,
                        items |-> pages[srv_pos + 1].items, eos |-> pages[srv_pos + 1].eos]
                  ELSE [kind |-> "doc", fault |-> TRUE, items |-> <<>>, eos |-> FALSE]
           r == wsman_call("pull", k, doc, FALSE, 0)
       IN /\ srv_pos' = (IF serves THEN srv_pos + 1 ELSE srv_pos)
          /\ srv_done' = (IF serves THEN doc.eos ELSE srv_done)
          /\ IF r.outcome = "return"
             THEN /\ ended' = (IF r.doc.eos THEN "EndOfSequence" ELSE "False")
                  /\ output' = Append(output, ItemsValue(r.doc.items))
                  /\ e_pc' = e_pc
                  /\ e_error' = e_error
             ELSE /\ e_pc' = "raised"
                  /\ e_error' = r.outcome
                  /\ UNCHANGED <<ended, output>>
    /\ UNCHANGED <<pages, srv_ctx, context, enum_calls>>
    /\ UNCHANGED <<txnVars, invokeVars, capVars>>

\* return output
PagerReturn ==
    /\ e_pc = "pulling"
    /\ ~LoopContinues(ended)
    /\ e_pc' = "returned"
    /\ UNCHANGED <<pages, srv_ctx, srv_pos, srv_done, context, ended, output, e_error,
                   enum_calls, pull_calls, pull_ctxs, pull_after_eos>>
    /\ UNCHANGED <<txnVars, invokeVars, capVars>>

PagerNext ==
    \/ \E k \in Fails, fault \in BOOLEAN : Enumerate(k, fault)
    \/ \E k \in Fails, fault \in BOOLEAN : Pull(k, fault)
    \/ PagerReturn

(***************************************************************************)
(* pywsman.ClientOptions, as far as wry uses it: the flags set on it and   *)
(* the selectors added to it.                                              *)
(***************************************************************************)
Flags == {"dump_request"}

DefaultOptions == [flags |-> {}, selectors |-> {}]

OptionSets == [flags : SUBSET Flags, selectors : {{}}]

\* monkey.copy_client_options (ClientOptions.__copy__): a new ClientOptions is
\* made, every get_* value of self is set on self again, and the new object is
\* returned.
copy_client_options(self) == DefaultOptions

add_selector(opts, name, value) ==
    [opts EXCEPT !.selectors = @ \cup {<<name, value>>}]

(***************************************************************************)
(* common.invoke_method                                                    *)
(***************************************************************************)
Methods == {"ChangeBootOrder", "SetBootConfigRole", "RequestPowerStateChange",
            "RequestStateChange"}

\* ReturnValue is an unsigned 32 bit integer; the values tried here are 0, two
\* small codes and the largest integer TLC represents.
RVals == {0, 1, 2, 2147483647}

Selectors == {<<>>,
              <<"InstanceID", "src-1">>,
              <<"InstanceID", "src-1", "cfg-0">>,
              <<"InstanceID", "src-1", "cfg-0", "extra">>}

MethodArgs == {<<>>, << <<"Role", "1">> >>}

NoReq == [sent |-> FALSE, method |-> "", anonymous |-> FALSE, selector |-> <<>>,
          args |-> <<>>, options |-> DefaultOptions]

NoReply == [kind |-> "none", fault |-> FALSE, method |-> "", rv |-> 0]

InvokeReplies == {[kind |-> "doc", fault |-> f, method |-> m, rv |-> v] :
                      f \in BOOLEAN, m \in Methods, v \in RVals}

NoResult == [status |-> "none", error |-> "", value |-> 0]

\* The comparison with 0 is inverted.
invoke_return_inverted(method_name, r) ==
    IF r.outcome # "return"
    THEN [status |-> "raised", error |-> r.outcome, value |-> 0]
    ELSE IF r.doc.method # method_name
         THEN [status |-> "raised", error |-> "KeyError", value |-> 0]
         ELSE IF r.doc.rv = 0
              THEN [status |-> "raised", error |-> "NonZeroReturn", value |-> r.doc.rv]
              ELSE [status |-> "returned", error |-> "", value |-> 0]

\* doc = wsman_invoke(...); returned = WryDict(doc);
\* return_value = returned[method_name + '_OUTPUT']['ReturnValue'];
\* if return_value != 0: raise NonZeroReturn(return_value); return not return_value
invoke_return(method_name, r) ==
    IF r.outcome # "return"
    THEN [status |-> "raised", error |-> r.outcome, value |-> 0]
    ELSE IF r.doc.method # method_name
         THEN [status |-> "raised", error |-> "KeyError", value |-> 0]
         ELSE IF r.doc.rv # 0
              THEN [status |-> "raised", error |-> "NonZeroReturn", value |-> r.doc.rv]
              ELSE [status |-> "returned", error |-> "", value |-> 0]

\* Nothing is copied: the selector is registered on the caller's own options.
invoke_caller_options_alias(opts, selector) ==
    IF Len(selector) = 3
    THEN add_selector(opts, selector[1], selector[Len(selector)])
    ELSE opts

\* The caller's options object after a call of invoke_method.  The local name
\* options is rebound to the copy, so add_selector acts on the copy; making the
\* copy sets every get_* value of the caller's object on that object again,
\* which leaves it as it was.
invoke_caller_options(opts, selector) == opts

\* The options that go out with the request: a copy of the caller's, with the
\* selector's third value registered when the selector has one.
invoke_options(opts, selector) ==
    IF Len(selector) > 2
    THEN add_selector(copy_client_options(opts), selector[1], selector[Len(selector)])
    ELSE copy_client_options(opts)

InvokeParked ==
    /\ options = DefaultOptions
    /\ i_pc = "parked"
    /\ i_req = NoReq
    /\ i_reply = NoReply
    /\ i_result = NoResult
    /\ i_log = <<>>

InvokeInit ==
    /\ options \in OptionSets
    /\ i_pc = "idle"
    /\ i_req = NoReq
    /\ i_reply = NoReply
    /\ i_result = NoResult
    /\ i_log = <<>>

\* One call of invoke_method.  The transport returns no document k times and
\* then delivers reply.
InvokeMethod(method_name, selector, method_args, anonymous, k, reply) ==
    /\ i_pc = "idle"
    /\ IF Len(selector) > 3
       THEN \* assert len(selector) == 3
            /\ i_result' = [status |-> "raised", error |-> "AssertionError", value |-> 0]
            /\ i_pc' = "raised"
            /\ UNCHANGED <<i_req, i_reply>>
       ELSE LET r == wsman_call("invoke", k, reply, FALSE, 0)
                res == invoke_return(method_name, r)
            IN /\ i_req' = [sent |-> TRUE, method |-> method_name,
                            anonymous |-> anonymous, selector |-> selector,
                            args |-> method_args,
                            options |-> invoke_options(options, selector)]
               /\ i_reply' = r.doc
               /\ i_result' = res
               /\ i_pc' = res.status
    /\ options' = invoke_caller_options(options, selector)
    /\ UNCHANGED i_log
    /\ UNCHANGED <<txnVars, pagerVars, capVars>>

\* The capabilities of one AMTDevice share self.options, so whatever is
\* requested next goes through the same object.
MaxLater == 2

LaterOps == Ops \ {"invoke"}

LaterSelectors == {<<>>, <<"InstanceID", "src-2", "cfg-1">>}

\* A later get, put, enumerate or pull: the shared options are handed to the
\* transport as they are.
LaterRequest(op) ==
    /\ i_pc \in {"returned", "raised"}
    /\ Len(i_log) < MaxLater
    /\ i_log' = Append(i_log, [op |-> op, selector |-> <<>>, options |-> options])
    /\ UNCHANGED <<options, i_pc, i_req, i_reply, i_result>>
    /\ UNCHANGED <<txnVars, pagerVars, capVars>>

\* A later invoke_method through the same options.
LaterInvoke(selector) ==
    /\ i_pc \in {"returned", "raised"}
    /\ Len(i_log) < MaxLater
    /\ i_log' = Append(i_log, [op |-> "invoke", selector |-> selector,
                               options |-> invoke_options(options, selector)])
    /\ options' = invoke_caller_options(options, selector)
    /\ UNCHANGED <<i_pc, i_req, i_reply, i_result>>
    /\ UNCHANGED <<txnVars, pagerVars, capVars>>

InvokeNext ==
    \/ /\ i_pc = "idle"
       /\ \E m \in Methods, sel \in Selectors, args \in MethodArgs, anon \in BOOLEAN,
             k \in Fails, reply \in InvokeReplies :
              InvokeMethod(m, sel, args, anon, k, reply)
    \/ \E op \in LaterOps : LaterRequest(op)
    \/ \E sel \in LaterSelectors : LaterInvoke(sel)

(***************************************************************************)
(* Python values that the capability code compares: strings, tuples        *)
(* (a namedtuple compares as the tuple of its items) and None.             *)
(***************************************************************************)
PyStr(x) == [type |-> "str", items |-> <<x>>]

PyTuple(x, y) == [type |-> "tuple", items |-> <<x, y>>]

PyNone == [type |-> "NoneType", items |-> <<>>]

PyEq(a, b) == a.type = b.type /\ a.items = b.items

\* StateMap = namedtuple('StateMap', ['state', 'sub_state']); an absent
\* sub_state is written "None".
StateMap(state, sub_state) == PyTuple(state, sub_state)

\* device.AMT_POWER_STATE_MAP; Python's index i is position i + 1 here.
AMT_POWER_STATE_MAP ==
    << PyNone,
       StateMap("other", "None"),
       StateMap("on", "None"),
       StateMap("sleep", "Light"),
       StateMap("sleep", "Deep"),
       StateMap("cycle", "(Off - Soft)"),
       StateMap("off", "hard"),
       StateMap("hibernate", "(Off - Soft)"),
       StateMap("off", "soft"),
       StateMap("cycle", "(Off - Hard)"),
       StateMap("Master Bus Reset", "None"),
       StateMap("Diagnostic Interrupt (NMI)", "None"),
       StateMap("off", "Soft Graceful"),
       StateMap("off", "Hard Graceful"),
       StateMap("Master Bus Reset", "Graceful"),
       StateMap("cycle", "(Off - Soft Graceful)"),
       StateMap("cycle", "(Off - Hard Graceful)"),
       StateMap("Diagnostic Interrupt (INIT)", "None") >>

\* The PowerState codes a device may report: every index of the table, and the
\* first code past it.
PowerStates == 0..Len(AMT_POWER_STATE_MAP)

\* The primary state label of a decoded state ("None" for index 0).
Primary(sm) == IF sm.type = "tuple" THEN sm.items[1] ELSE "None"

\* AMT_POWER_STATE_MAP.index(value): the first Python index holding value.
power_index(value) ==
    CHOOSE i \in 0..(Len(AMT_POWER_STATE_MAP) - 1) :
        /\ PyEq(AMT_POWER_STATE_MAP[i + 1], value)
        /\ \A j \in 0..(i - 1) : ~PyEq(AMT_POWER_STATE_MAP[j + 1], value)

(***************************************************************************)
(* The device.  A get reads a resource, a put replaces it.                 *)
(***************************************************************************)
DefaultDev ==
    [CIM_AssociatedPowerManagementService |-> [PowerState |-> 2],
     IPS_KVMRedirectionSettingData |-> [Is5900PortEnabled |-> FALSE],
     AMT_RedirectionService |-> [ListenerEnabled |-> FALSE, EnabledState |-> 32768],
     AMT_TLSSettingData |-> [Enabled |-> FALSE],
     CIM_KVMRedirectionSAP |-> [EnabledState |-> 2],
     IPS_OptInService |-> [OptInCodeTimeout |-> 120, OptInRequired |-> <<0, 0>>,
                           OptInState |-> 0],
     CIM_BootConfigSetting |-> [InstanceID |-> "Intel(r) AMT: Boot Configuration 0"]]

\* The outcome of one decorated request of a capability: "return" or the
\* exception it raises.
Outcome(op, k, fault) ==
    wsman_call(op, k, [kind |-> "doc", fault |-> fault], FALSE, 0).outcome

(***************************************************************************)
(* The keyword arguments of a call of common.invoke_method.  A call with a *)
(* keyword the function does not declare, or without one it requires, is   *)
(* a TypeError, raised before the function body runs.                      *)
(***************************************************************************)
InvokeParams == {"service_name", "resource_name", "affected_item", "method_name",
                 "options", "client", "selector", "method_args", "anonymous"}

InvokeRequired == {"service_name", "resource_name", "affected_item", "method_name",
                   "options", "client"}

InvokeAccepts(kwargs) == kwargs \subseteq InvokeParams /\ InvokeRequired \subseteq kwargs

(***************************************************************************)
(* device.AMTPower                                                         *)
(***************************************************************************)
\* The keywords request_power_state_change passes to invoke_method.
PowerKwargs == {"service_name", "resource_name", "affected_item", "method_name",
                "options", "client", "selector", "args_before", "anonymous"}

NoState == [type |-> "unread", items |-> <<>>]

\* request_power_state_change(power_state): what it sends and how it ends, when
\* the transport fails k times and the device then answers ReturnValue rv.
request_power_state_change(power_state, k, fault, rv) ==
    IF ~InvokeAccepts(PowerKwargs)
    THEN [reqs |-> <<>>, error |-> "TypeError"]
    ELSE LET reply == [kind |-> "doc", fault |-> fault,
                       method |-> "RequestPowerStateChange", rv |-> rv]
             res == invoke_return("RequestPowerStateChange",
                                  wsman_call("invoke", k, reply, FALSE, 0))
         IN [reqs |-> << [method |-> "RequestPowerStateChange", PowerState |-> power_state] >>,
             error |-> res.error]

turn_on(k, fault, rv) ==
    request_power_state_change(power_index(PyTuple("on", "None")), k, fault, rv)

turn_off(k, fault, rv) == request_power_state_change(8, k, fault, rv)

reset(k, fault, rv) == request_power_state_change(5, k, fault, rv)

\* if state == 'on'
toggle_on_branch(state) == PyEq(state, PyStr("on"))

\* elif state == 'off'
toggle_off_branch(state) == PyEq(state, PyStr("off"))

PowerParked ==
    /\ p_pc = "parked"
    /\ p_op = ""
    /\ p_state = NoState
    /\ p_reqs = <<>>
    /\ p_error = ""

PowerInit ==
    /\ dev \in {[DefaultDev EXCEPT !.CIM_AssociatedPowerManagementService.PowerState = c] :
                    c \in PowerStates}
    /\ p_pc = "idle"
    /\ p_op = ""
    /\ p_state = NoState
    /\ p_reqs = <<>>
    /\ p_error = ""

\* The end of an AMTPower method that called request_power_state_change.
PowerFinish(op, r) ==
    /\ p_op' = op
    /\ p_reqs' = r.reqs
    /\ p_error' = r.error
    /\ p_pc' = (IF r.error = "" THEN "returned" ELSE "raised")
    /\ dev' = (IF r.error = "" /\ r.reqs # <<>>
               THEN [dev EXCEPT !.CIM_AssociatedPowerManagementService.PowerState =
                                    r.reqs[1].PowerState]
               ELSE dev)

TurnOn(k, fault, rv) ==
    /\ p_pc = "idle"
    /\ PowerFinish("turn_on", turn_on(k, fault, rv))
    /\ UNCHANGED p_state
    /\ UNCHANGED <<txnVars, pagerVars, invokeVars, kvmVars, redirVars, extVars>>

TurnOff(k, fault, rv) ==
    /\ p_pc = "idle"
    /\ PowerFinish("turn_off", turn_off(k, fault, rv))
    /\ UNCHANGED p_state
    /\ UNCHANGED <<txnVars, pagerVars, invokeVars, kvmVars, redirVars, extVars>>

Reset(k, fault, rv) ==
    /\ p_pc = "idle"
    /\ PowerFinish("reset", reset(k, fault, rv))
    /\ UNCHANGED p_state
    /\ UNCHANGED <<txnVars, pagerVars, invokeVars, kvmVars, redirVars, extVars>>

\* toggle(): state = self.state (a get of PowerState, decoded through the
\* table), then the two comparisons, then raise SomeError, a name that is not
\* defined.  gk, gfault: the get; k, fault, rv: the invocation.
Toggle(gk, gfault, k, fault, rv) ==
    /\ p_pc = "idle"
    /\ LET got == Outcome("get", gk, gfault)
           code == dev.CIM_AssociatedPowerManagementService.PowerState
       IN IF got # "return"
          THEN /\ p_op' = "toggle"
               /\ p_pc' = "raised"
               /\ p_error' = got
               /\ UNCHANGED <<p_state, p_reqs, dev>>
          ELSE IF code >= Len(AMT_POWER_STATE_MAP)
          THEN /\ p_op' = "toggle"
               /\ p_pc' = "raised"
               /\ p_error' = "IndexError"
               /\ UNCHANGED <<p_state, p_reqs, dev>>
          ELSE LET state == AMT_POWER_STATE_MAP[code + 1]
               IN /\ p_state' = state
                  /\ IF toggle_on_branch(state)
                     THEN PowerFinish("toggle", turn_off(k, fault, rv))
                     ELSE IF toggle_off_branch(state)
                     THEN PowerFinish("toggle", turn_on(k, fault, rv))
                     ELSE /\ p_op' = "toggle"
                          /\ p_pc' = "raised"
                          /\ p_error' = "NameError"
                          /\ UNCHANGED <<p_reqs, dev>>
    /\ UNCHANGED <<txnVars, pagerVars, invokeVars, kvmVars, redirVars, extVars>>

PowerNext ==
    \/ \E k \in Fails, fault \in BOOLEAN, rv \in RVals : TurnOn(k, fault, rv)
    \/ \E k \in Fails, fault \in BOOLEAN, rv \in RVals : TurnOff(k, fault, rv)
    \/ \E k \in Fails, fault \in BOOLEAN, rv \in RVals : Reset(k, fault, rv)
    \/ \E gk \in Fails, gfault \in BOOLEAN, k \in Fails, fault \in BOOLEAN, rv \in RVals :
           Toggle(gk, gfault, k, fault, rv)

(***************************************************************************)
(* wry.data_structures.EnablementMap: a fixed sequence of values and the   *)
(* set of those that are enabled; toggle flips one value's membership.     *)
(***************************************************************************)
EnablementMap(values) == [values |-> values, enabled |-> {}]

em_toggle(m, v) ==
    [m EXCEPT !.enabled = IF v \in @ THEN @ \ {v} ELSE @ \cup {v}]

ToSet(seq) == {seq[i] : i \in DOMAIN seq}

SymDiff(a, b) == (a \ b) \cup (b \ a)

(***************************************************************************)
(* device.DeviceCapability.put with as_update: the resource is fetched,    *)
(* updated with the input and put back whole.                              *)
(***************************************************************************)
\* The fetched resource is dropped: the payload is the input alone.
put_payload_replace(d, resource_name, input_dict) == input_dict

put_payload(d, resource_name, input_dict) ==
    [f \in DOMAIN d[resource_name] \cup DOMAIN input_dict |->
        IF f \in DOMAIN input_dict THEN input_dict[f] ELSE d[resource_name][f]]

\* The device after it has applied a put of payload to the resource.
ApplyPut(d, resource_name, payload) == [d EXCEPT ![resource_name] = payload]

TransportStages == {"get", "put", "reread"}

(***************************************************************************)
(* device.AMTKVM.enabled_ports                                             *)
(***************************************************************************)
KvmPorts == <<5900, 16994, 16995>>

\* The ports a caller may ask for: the three KVM ports and one that is none.
PortInputs == ToSet(KvmPorts) \cup {80}

\* Port 16995 is toggled on the TLS setting alone.
enabled_ports_flat(d) ==
    LET p0 == EnablementMap(KvmPorts)
        p1 == IF d.IPS_KVMRedirectionSettingData.Is5900PortEnabled
              THEN em_toggle(p0, 5900) ELSE p0
        p2 == IF d.AMT_RedirectionService.ListenerEnabled
              THEN em_toggle(p1, 16994) ELSE p1
    IN IF d.AMT_TLSSettingData.Enabled THEN em_toggle(p2, 16995) ELSE p2

\* The getter.
enabled_ports(d) ==
    LET p0 == EnablementMap(KvmPorts)
        p1 == IF d.IPS_KVMRedirectionSettingData.Is5900PortEnabled
              THEN em_toggle(p0, 5900) ELSE p0
        p2 == IF d.AMT_RedirectionService.ListenerEnabled
              THEN LET q == em_toggle(p1, 16994)
                   IN IF d.AMT_TLSSettingData.Enabled THEN em_toggle(q, 16995) ELSE q
              ELSE p1
    IN p2

\* The requests of the getter: the get of IPS_KVMRedirectionSettingData, the
\* get of AMT_RedirectionService and, when the listener is enabled, the walk of
\* AMT_TLSSettingData.
GetterStages == {"kvm", "listener", "tls"}

\* The setter's validation reaches the walk of AMT_TLSSettingData.
kvm_needs_tls(values, ports, enabled) ==
    /\ values \ ToSet(ports) = {}
    /\ 16995 \in values /\ 16995 \notin enabled
    /\ 16994 \in values

\* The TLS test is left out.
kvm_validate_notls(values, ports, enabled, tls) ==
    IF values \ ToSet(ports) # {}
    THEN "ValueError"
    ELSE IF 16995 \in values /\ 16995 \notin enabled /\ 16994 \notin values
         THEN "ValueError"
         ELSE ""

\* The setter's validation: "" when it passes.
kvm_validate(values, ports, enabled, tls) ==
    IF values \ ToSet(ports) # {}
    THEN "ValueError"
    ELSE IF 16995 \in values /\ 16995 \notin enabled
         THEN IF 16994 \notin values
              THEN "ValueError"
              ELSE IF ~tls THEN "ValueError" ELSE ""
         ELSE ""

\* Every port is taken as changed.
port_changed_always(enable, port, enabled) == TRUE

\* if (enable and port not in enabled) or (not enable and port in enabled)
port_changed(enable, port, enabled) ==
    (enable /\ port \notin enabled) \/ (~enable /\ port \in enabled)

\* The put the loop issues for a changed port; port 16995 has none.
kvm_put(port, enable) ==
    IF port = 5900
    THEN << [resource |-> "IPS_KVMRedirectionSettingData",
             field |-> "Is5900PortEnabled", value |-> enable] >>
    ELSE IF port = 16994
         THEN << [resource |-> "AMT_RedirectionService",
                  field |-> "ListenerEnabled", value |-> enable] >>
         ELSE <<>>

\* The input_dict of a logged put.
InputDict(put) == [f \in {put.field} |-> put.value]

\* device.AMT_KVM_ENABLEMENT_MAP
AMT_KVM_ENABLEMENT_MAP ==
    [code \in {2, 6, 3} |->
        CASE code = 2 -> StateMap(TRUE, "Enabled")
          [] code = 6 -> StateMap(TRUE, "Enabled But Offline")
          [] code = 3 -> StateMap(FALSE, "Disabled")]

\* The EnabledState codes a device may report for CIM_KVMRedirectionSAP.
KvmEnabledCodes == {0, 2, 3, 4, 6, 7}

NoKvmRead == [error |-> "unread", state |-> FALSE]

NoPortsRead == [error |-> "unread", after_set |-> FALSE, enabled |-> {}]

\* A code without an entry reads as disabled.
kvm_enabled_default(e_state) ==
    IF e_state \in DOMAIN AMT_KVM_ENABLEMENT_MAP
    THEN [error |-> "", state |-> AMT_KVM_ENABLEMENT_MAP[e_state].items[1]]
    ELSE [error |-> "", state |-> FALSE]

\* AMT_KVM_ENABLEMENT_MAP[e_state].state
kvm_enabled(e_state) ==
    IF e_state \in DOMAIN AMT_KVM_ENABLEMENT_MAP
    THEN [error |-> "", state |-> AMT_KVM_ENABLEMENT_MAP[e_state].items[1]]
    ELSE [error |-> "KeyError", state |-> FALSE]

KvmParked ==
    /\ k_pc = "parked"
    /\ k_values = {}
    /\ k_ports = <<>>
    /\ k_enabled = {}
    /\ k_idx = 0
    /\ k_puts = <<>>
    /\ k_error = ""
    /\ k_read = NoKvmRead
    /\ k_map = NoPortsRead

KvmDevs ==
    {[DefaultDev EXCEPT !.IPS_KVMRedirectionSettingData.Is5900PortEnabled = a,
                        !.AMT_RedirectionService.ListenerEnabled = b,
                        !.AMT_TLSSettingData.Enabled = c,
                        !.CIM_KVMRedirectionSAP.EnabledState = e] :
        a \in BOOLEAN, b \in BOOLEAN, c \in BOOLEAN, e \in KvmEnabledCodes}

KvmInit ==
    /\ dev \in KvmDevs
    /\ k_pc = "idle"
    /\ k_values = {}
    /\ k_ports = <<>>
    /\ k_enabled = {}
    /\ k_idx = 0
    /\ k_puts = <<>>
    /\ k_error = ""
    /\ k_read = NoKvmRead
    /\ k_map = NoPortsRead

\* The setter up to its loop: ports and enabled are read through the getter,
\* then the validation.  gk, gfault: the getter's requests; wk, wfault: the
\* validation's walk of AMT_TLSSettingData.
KvmSetBegin(values, gk, gfault, wk, wfault) ==
    /\ k_pc = "idle"
    /\ k_values' = values
    /\ LET got == Outcome("get", gk, gfault)
           ports == enabled_ports(dev).values
           enabled == enabled_ports(dev).enabled
           walked == IF kvm_needs_tls(values, ports, enabled)
                     THEN Outcome("pull", wk, wfault) ELSE "return"
           err == kvm_validate(values, ports, enabled, dev.AMT_TLSSettingData.Enabled)
       IN IF got # "return"
          THEN /\ k_pc' = "raised"
               /\ k_error' = got
               /\ UNCHANGED <<k_ports, k_enabled, k_idx>>
          ELSE /\ k_ports' = ports
               /\ k_enabled' = enabled
               /\ IF walked # "return"
                  THEN k_pc' = "raised" /\ k_error' = walked /\ k_idx' = k_idx
                  ELSE IF err # ""
                       THEN k_pc' = "raised" /\ k_error' = err /\ k_idx' = k_idx
                       ELSE k_pc' = "loop" /\ k_error' = k_error /\ k_idx' = 1
    /\ UNCHANGED <<dev, k_puts, k_read, k_map>>
    /\ UNCHANGED <<txnVars, pagerVars, invokeVars, powerVars, redirVars, extVars>>

\* One turn of the setter's loop.  When the transport outcome of (k, fault) is
\* an error, it strikes at stage: the put's get, the put itself, or the
\* re-read of enabled_ports for the toggle.
KvmSetStep(stage, k, fault) ==
    /\ k_pc = "loop"
    /\ k_idx <= Len(k_ports)
    /\ LET port == k_ports[k_idx]
           enable == port \in k_values
           put == kvm_put(port, enable)
           err == Outcome("put", k, fault)
           fails == /\ err # "return"
                    /\ (put = <<>> => stage = "reread")
           issued == put # <<>> /\ ~(fails /\ stage = "get")
           applied == issued /\ ~(fails /\ stage = "put")
       IN IF ~port_changed(enable, port, k_enabled)
          THEN /\ k_idx' = k_idx + 1
               /\ UNCHANGED <<dev, k_pc, k_puts, k_error>>
          ELSE /\ k_puts' = (IF issued THEN k_puts \o put ELSE k_puts)
               /\ dev' = (IF applied
                          THEN ApplyPut(dev, put[1].resource,
                                        put_payload(dev, put[1].resource, InputDict(put[1])))
                          ELSE dev)
               /\ IF fails
                  THEN k_pc' = "raised" /\ k_error' = err /\ k_idx' = k_idx
                  ELSE k_pc' = k_pc /\ k_error' = k_error /\ k_idx' = k_idx + 1
    /\ UNCHANGED <<k_values, k_ports, k_enabled, k_read, k_map>>
    /\ UNCHANGED <<txnVars, pagerVars, invokeVars, powerVars, redirVars, extVars>>

\* The loop is over: the setter returns.
KvmSetReturn ==
    /\ k_pc = "loop"
    /\ k_idx > Len(k_ports)
    /\ k_pc' = "returned"
    /\ UNCHANGED <<dev, k_values, k_ports, k_enabled, k_idx, k_puts, k_error, k_read,
                   k_map>>
    /\ UNCHANGED <<txnVars, pagerVars, invokeVars, powerVars, redirVars, extVars>>

\* The enabled getter: a get of CIM_KVMRedirectionSAP, then the decoding of
\* its EnabledState.
KvmGetEnabled(k, fault) ==
    /\ k_pc = "idle"
    /\ LET got == Outcome("get", k, fault)
           decoded == kvm_enabled(dev.CIM_KVMRedirectionSAP.EnabledState)
       IN IF got # "return"
          THEN /\ k_pc' = "raised"
               /\ k_error' = got
               /\ k_read' = [error |-> got, state |-> FALSE]
          ELSE /\ k_pc' = (IF decoded.error = "" THEN "read" ELSE "raised")
               /\ k_error' = decoded.error
               /\ k_read' = decoded
    /\ UNCHANGED <<dev, k_values, k_ports, k_enabled, k_idx, k_puts, k_map>>
    /\ UNCHANGED <<txnVars, pagerVars, invokeVars, powerVars, redirVars, extVars>>

\* A read of enabled_ports, before any setter or after one has returned.  When
\* the transport outcome of (k, fault) is an error, it strikes at stage.
KvmGetPorts(stage, k, fault) ==
    /\ k_pc \in {"idle", "returned"}
    /\ LET err == Outcome(IF stage = "tls" THEN "pull" ELSE "get", k, fault)
           reached == stage # "tls" \/ dev.AMT_RedirectionService.ListenerEnabled
           fails == err # "return" /\ reached
       IN IF fails
          THEN /\ k_pc' = "get_raised"
               /\ k_map' = [error |-> err, after_set |-> k_pc = "returned", enabled |-> {}]
          ELSE /\ k_pc' = "got"
               /\ k_map' = [error |-> "", after_set |-> k_pc = "returned",
                            enabled |-> enabled_ports(dev).enabled]
    /\ UNCHANGED <<dev, k_values, k_ports, k_enabled, k_idx, k_puts, k_error, k_read>>
    /\ UNCHANGED <<txnVars, pagerVars, invokeVars, powerVars, redirVars, extVars>>

KvmNext ==
    \/ \E k \in Fails, fault \in BOOLEAN : KvmGetEnabled(k, fault)
    \/ \E stage \in GetterStages, k \in Fails, fault \in BOOLEAN :
           KvmGetPorts(stage, k, fault)
    \/ \E values \in SUBSET PortInputs, gk \in Fails, gfault \in BOOLEAN,
          wk \in Fails, wfault \in BOOLEAN :
           KvmSetBegin(values, gk, gfault, wk, wfault)
    \/ \E stage \in TransportStages, k \in Fails, fault \in BOOLEAN :
           KvmSetStep(stage, k, fault)
    \/ KvmSetReturn

(***************************************************************************)
(* device.AMTRedirection.enabled_features                                  *)
(***************************************************************************)
FeatureNames == {"SoL", "IDER", "USB"}

FeatureLists == UNION {[1..n -> FeatureNames] : n \in 0..MaxFeatures}

ValidFeatureSets == SUBSET {"SoL", "IDER"}

\* The keys of AMTRedirection._state_mapping.
StateMappingKeys == (0..11) \cup (32768..32771)

\* The EnabledState codes a device may hold at the start.
RedirCodes == {0, 3, 11, 12, 32768, 32769, 32770, 32771, 32772}

\* The codes of 'SoL' and 'IDER' are exchanged.
redir_encode_swapped(features) ==
    IF features = <<>>
    THEN [error |-> "", code |-> 32768]
    ELSE IF ToSet(features) = {"SoL", "IDER"}
    THEN [error |-> "", code |-> 32771]
    ELSE IF features[1] = "SoL"
    THEN [error |-> "", code |-> 32769]
    ELSE IF features[1] = "IDER"
    THEN [error |-> "", code |-> 32770]
    ELSE [error |-> "AttributeError", code |-> 0]

\* The setter's choice of the code; its last branch builds its message from
\* self.enabled, an attribute the class does not have.
redir_encode(features) ==
    IF features = <<>>
    THEN [error |-> "", code |-> 32768]
    ELSE IF ToSet(features) = {"SoL", "IDER"}
    THEN [error |-> "", code |-> 32771]
    ELSE IF features[1] = "SoL"
    THEN [error |-> "", code |-> 32770]
    ELSE IF features[1] = "IDER"
    THEN [error |-> "", code |-> 32769]
    ELSE [error |-> "AttributeError", code |-> 0]

\* The getter's decoding of EnabledState.
redir_decode(state) ==
    IF state >= 32768
    THEN LET items == EnablementMap(<<"SoL", "IDER">>)
             i1 == IF state \in {32769, 32771} THEN em_toggle(items, "IDER") ELSE items
             i2 == IF state \in {32770, 32771} THEN em_toggle(i1, "SoL") ELSE i1
         IN [error |-> "", enabled |-> i2.enabled]
    ELSE IF state \in StateMappingKeys
         THEN [error |-> "LookupError", enabled |-> {}]
         ELSE [error |-> "KeyError", enabled |-> {}]

NoRead == [error |-> "unread", enabled |-> {}]

RedirParked ==
    /\ r_pc = "parked"
    /\ r_features = <<>>
    /\ r_puts = <<>>
    /\ r_read = NoRead
    /\ r_error = ""

RedirInit ==
    /\ dev \in {[DefaultDev EXCEPT !.AMT_RedirectionService.EnabledState = c,
                                   !.AMT_RedirectionService.ListenerEnabled = b] :
                    c \in RedirCodes, b \in BOOLEAN}
    /\ r_pc = "idle"
    /\ r_features = <<>>
    /\ r_puts = <<>>
    /\ r_read = NoRead
    /\ r_error = ""

\* The setter: the code is chosen, then put('AMT_RedirectionService',
\* {'EnabledState': code}).  An error of the transport strikes the put's get
\* or the put itself.
RedirSet(features, stage, k, fault) ==
    /\ r_pc = "idle"
    /\ r_features' = features
    /\ LET enc == redir_encode(features)
           put == [resource |-> "AMT_RedirectionService",
                   field |-> "EnabledState", value |-> enc.code]
           err == Outcome("put", k, fault)
           fails == err # "return"
           issued == ~(fails /\ stage = "get")
       IN IF enc.error # ""
          THEN /\ r_pc' = "raised"
               /\ r_error' = enc.error
               /\ UNCHANGED <<dev, r_puts>>
          ELSE /\ r_puts' = (IF issued THEN Append(r_puts, put) ELSE r_puts)
               /\ dev' = (IF ~fails
                          THEN ApplyPut(dev, put.resource,
                                        put_payload(dev, put.resource, InputDict(put)))
                          ELSE dev)
               /\ r_pc' = (IF fails THEN "raised" ELSE "written")
               /\ r_error' = (IF fails THEN err ELSE r_error)
    /\ UNCHANGED r_read
    /\ UNCHANGED <<txnVars, pagerVars, invokeVars, powerVars, kvmVars, extVars>>

\* The getter: a get of EnabledState, then the decoding.
RedirGet(k, fault) ==
    /\ r_pc \in {"idle", "written"}
    /\ LET got == Outcome("get", k, fault)
       IN IF got # "return"
          THEN /\ r_pc' = "raised"
               /\ r_error' = got
               /\ r_read' = r_read
          ELSE /\ r_pc' = (IF r_pc = "written" THEN "read_back" ELSE "read")
               /\ r_error' = r_error
               /\ r_read' = redir_decode(dev.AMT_RedirectionService.EnabledState)
    /\ UNCHANGED <<dev, r_features, r_puts>>
    /\ UNCHANGED <<txnVars, pagerVars, invokeVars, powerVars, kvmVars, extVars>>

RedirNext ==
    \/ \E features \in FeatureLists, stage \in {"get", "put"}, k \in Fails,
          fault \in BOOLEAN :
           RedirSet(features, stage, k, fault)
    \/ \E k \in Fails, fault \in BOOLEAN : RedirGet(k, fault)

(***************************************************************************)
(* device.DeviceCapability.put over common.get_resource and                *)
(* common.put_resource.  When the transport misbehaves (k attempts without *)
(* a document, then a document that is a fault if fault is set), it does   *)
(* so at stage: the get or the put.                                        *)
(***************************************************************************)
Request(op, resource_name, payload) ==
    [op |-> op, resource |-> resource_name, payload |-> payload]

NoPayload == <<>>

PutStages == {"get", "put"}

cap_put(d, resource_name, input_dict, silent, as_update, stage, k, fault) ==
    LET fetched == wsman_call("get", IF stage = "get" THEN k ELSE 0,
                              [kind |-> "doc", fault |-> stage = "get" /\ fault],
                              FALSE, 0)
        resource == IF as_update
                    THEN put_payload(d, resource_name, input_dict)
                    ELSE input_dict
        response == wsman_call("put", IF stage = "put" THEN k ELSE 0,
                               [kind |-> "doc", fault |-> stage = "put" /\ fault],
                               silent, 0)
        gets == IF as_update
                THEN << Request("get", resource_name, NoPayload) >>
                ELSE <<>>
    IN IF as_update /\ fetched.outcome # "return"
       THEN [reqs |-> gets, dev |-> d, error |-> fetched.outcome]
       ELSE [reqs |-> gets \o << Request("put", resource_name, resource) >>,
             dev |-> IF response.doc.kind = "doc" /\ ~response.doc.fault
                     THEN ApplyPut(d, resource_name, resource)
                     ELSE d,
             error |-> IF response.outcome = "return" THEN "" ELSE response.outcome]

\* The calls of put that are tried: the resource named (none: the
\* capability's own resource_name) and the input_dict.
CapCalls ==
    << [resource_name |-> "AMT_RedirectionService",
        input_dict |-> [EnabledState |-> 32771]],
       [resource_name |-> "AMT_RedirectionService",
        input_dict |-> [ListenerEnabled |-> TRUE]],
       [resource_name |-> "AMT_RedirectionService",
        input_dict |-> [ListenerEnabled |-> TRUE, EnabledState |-> 32769]],
       [resource_name |-> "IPS_OptInService",
        input_dict |-> [OptInCodeTimeout |-> 300]],
       [resource_name |-> "IPS_KVMRedirectionSettingData",
        input_dict |-> [DefaultScreen |-> 1]],
       [resource_name |-> "IPS_KVMRedirectionSettingData",
        input_dict |-> [Is5900PortEnabled |-> TRUE, DefaultScreen |-> 1]],
       [resource_name |-> "AMT_TLSSettingData",
        input_dict |-> [Enabled |-> TRUE]],
       [resource_name |-> "",
        input_dict |-> [PowerState |-> 8]] >>

\* self.resource_name of the capability (AMTPower sets it).
SelfResourceName == "CIM_AssociatedPowerManagementService"

\* if not resource_name: resource_name = self.resource_name
cap_resource_name(resource_name) ==
    IF resource_name = "" THEN SelfResourceName ELSE resource_name

NoArgs == [resource_name |-> "", input_dict |-> <<>>, silent |-> FALSE,
           as_update |-> FALSE]

CapParked ==
    /\ c_pc = "parked"
    /\ c_args = NoArgs
    /\ c_reqs = <<>>
    /\ c_error = ""

CapInit ==
    /\ dev \in {DefaultDev,
                [DefaultDev EXCEPT !.AMT_RedirectionService.ListenerEnabled = TRUE,
                                   !.IPS_KVMRedirectionSettingData.Is5900PortEnabled = TRUE]}
    /\ c_pc = "idle"
    /\ c_args = NoArgs
    /\ c_reqs = <<>>
    /\ c_error = ""

\* One call of put(resource_name, input_dict, silent, as_update).
CapPut(call, silent, as_update, stage, k, fault) ==
    /\ c_pc = "idle"
    /\ c_args' = [resource_name |-> call.resource_name, input_dict |-> call.input_dict,
                  silent |-> silent, as_update |-> as_update]
    /\ LET r == cap_put(dev, cap_resource_name(call.resource_name), call.input_dict,
                        silent, as_update, stage, k, fault)
       IN /\ c_reqs' = r.reqs
          /\ dev' = r.dev
          /\ c_error' = r.error
          /\ c_pc' = (IF r.error = "" THEN "returned" ELSE "raised")
    /\ UNCHANGED <<txnVars, pagerVars, invokeVars, powerVars, kvmVars, redirVars,
                   optVars, bootVars>>

CapNext ==
    \E i \in DOMAIN CapCalls, silent \in BOOLEAN, as_update \in BOOLEAN,
       stage \in PutStages, k \in Fails, fault \in BOOLEAN :
        CapPut(CapCalls[i], silent, as_update, stage, k, fault)

(***************************************************************************)
(* device.AMTOptIn: the required and code_ttl setters.                     *)
(***************************************************************************)
PyInt(n) == [type |-> "int", items |-> <<n>>]

PyFloat(n) == [type |-> "float", items |-> <<n>>]

PyBool(b) == [type |-> "bool", items |-> <<b>>]

\* A 32 bit code, written as its two 16 bit halves: the integer hi * 65536 + lo.
Code32(hi, lo) == <<hi, lo>>

\* AMTOptIn._consent_mapping, in its order: 0, 1, 4294967295.
_consent_mapping ==
    << [key |-> Code32(0, 0), val |-> PyNone],
       [key |-> Code32(0, 1), val |-> PyStr("KVM")],
       [key |-> Code32(65535, 65535), val |-> PyStr("All")] >>

\* The labels a caller may give to required.
ConsentInputs ==
    << PyNone, PyStr("KVM"), PyStr("All"), PyStr("None"), PyStr("kvm"), PyInt(0) >>

\* The key is taken from the entry that follows the matching one.
consent_key_shifted(value) ==
    LET hits == {i \in DOMAIN _consent_mapping : PyEq(value, _consent_mapping[i].val)}
    IN IF hits = {}
       THEN [error |-> "KeyError", key |-> Code32(0, 0)]
       ELSE [error |-> "",
             key |-> _consent_mapping[((CHOOSE i \in hits : TRUE) % Len(_consent_mapping)) + 1].key]

\* The for/else of the required setter: the key of the first entry whose
\* label equals value, KeyError when there is none.
consent_key(value) ==
    LET hits == {i \in DOMAIN _consent_mapping : PyEq(value, _consent_mapping[i].val)}
    IN IF hits = {}
       THEN [error |-> "KeyError", key |-> Code32(0, 0)]
       ELSE [error |-> "",
             key |-> _consent_mapping[CHOOSE i \in hits : \A j \in hits : i <= j].key]

\* The values a caller may give to code_ttl.
TtlInputs ==
    << PyInt(0), PyInt(59), PyInt(60), PyInt(61), PyInt(480), PyInt(899),
       PyInt(900), PyInt(901), PyFloat(60), PyFloat(480), PyStr("480"),
       PyBool(TRUE), PyNone >>

\* The range is taken as open: 60 < value < 900.
code_ttl_valid_open(value) ==
    value.type = "int" /\ 60 < value.items[1] /\ value.items[1] < 900

\* assert type(value) == int; assert 60 <= value <= 900
code_ttl_valid(value) ==
    value.type = "int" /\ 60 <= value.items[1] /\ value.items[1] <= 900

Unselected == [type |-> "unselected", items |-> <<>>]

OptParked ==
    /\ o_pc = "parked"
    /\ o_op = ""
    /\ o_value = PyNone
    /\ o_reqs = <<>>
    /\ o_selected = Unselected
    /\ o_error = ""

OptInit ==
    /\ dev = DefaultDev
    /\ o_pc = "idle"
    /\ o_op = ""
    /\ o_value = PyNone
    /\ o_reqs = <<>>
    /\ \E i \in 0..Len(_consent_mapping) :
           o_selected = (IF i = 0 THEN Unselected ELSE _consent_mapping[i].val)
    /\ o_error = ""

optOthers == <<txnVars, pagerVars, invokeVars, powerVars, kvmVars, redirVars,
               bootVars, putVars>>

\* The required setter.
OptSetRequired(value, stage, k, fault) ==
    /\ o_pc = "idle"
    /\ o_op' = "required"
    /\ o_value' = value
    /\ LET found == consent_key(value)
           r == cap_put(dev, "IPS_OptInService",
                        [f \in {"OptInRequired"} |-> found.key],
                        FALSE, TRUE, stage, k, fault)
       IN IF found.error # ""
          THEN /\ o_pc' = "raised"
               /\ o_error' = found.error
               /\ UNCHANGED <<dev, o_reqs, o_selected>>
          ELSE /\ o_reqs' = r.reqs
               /\ dev' = r.dev
               /\ IF r.error # ""
                  THEN o_pc' = "raised" /\ o_error' = r.error /\ o_selected' = o_selected
                  ELSE o_pc' = "returned" /\ o_error' = o_error /\ o_selected' = value
    /\ UNCHANGED optOthers

\* The code_ttl setter.
OptSetCodeTtl(value, stage, k, fault) ==
    /\ o_pc = "idle"
    /\ o_op' = "code_ttl"
    /\ o_value' = value
    /\ LET r == cap_put(dev, "IPS_OptInService",
                        [f \in {"OptInCodeTimeout"} |-> value.items[1]],
                        FALSE, TRUE, stage, k, fault)
       IN IF ~code_ttl_valid(value)
          THEN /\ o_pc' = "raised"
               /\ o_error' = "TypeError"
               /\ UNCHANGED <<dev, o_reqs>>
          ELSE /\ o_reqs' = r.reqs
               /\ dev' = r.dev
               /\ o_pc' = (IF r.error # "" THEN "raised" ELSE "returned")
               /\ o_error' = r.error
    /\ UNCHANGED o_selected
    /\ UNCHANGED optOthers

OptNext ==
    \/ \E i \in DOMAIN ConsentInputs, stage \in PutStages, k \in Fails,
          fault \in BOOLEAN :
           OptSetRequired(ConsentInputs[i], stage, k, fault)
    \/ \E i \in DOMAIN TtlInputs, stage \in PutStages, k \in Fails,
          fault \in BOOLEAN :
           OptSetCodeTtl(TtlInputs[i], stage, k, fault)

(***************************************************************************)
(* device.AMTBoot: the medium setter.  A string is a sequence of tokens     *)
(* here, and "value in string" is containment as a contiguous run.         *)
(***************************************************************************)
IsSubstring(v, str) ==
    \E i \in 0..(Len(str) - Len(v)) : SubSeq(str, i + 1, i + Len(v)) = v

\* The instances of CIM_BootSourceSetting a device may hold, in its order.
BootSources ==
    << [InstanceID |-> "Intel(r) AMT: Force Hard-drive Boot",
        StructuredBootString |-> <<"CIM", ":", "Hard-Disk", ":", "1">>],
       [InstanceID |-> "Intel(r) AMT: Force PXE Boot",
        StructuredBootString |-> <<"CIM", ":", "Network", ":", "1">>],
       [InstanceID |-> "Intel(r) AMT: Force CD/DVD Boot",
        StructuredBootString |-> <<"CIM", ":", "CD/DVD", ":", "1">>] >>

RECURSIVE SumTo(_, _)
SumTo(sizes, n) == IF n = 0 THEN 0 ELSE SumTo(sizes, n - 1) + sizes[n]

\* The page sizes with which a device delivers its first sources.
BootPageSizes ==
    {sizes \in UNION {[1..m -> 1..Len(BootSources)] : m \in 1..Len(BootSources)} :
        SumTo(sizes, Len(sizes)) <= Len(BootSources)}

BootPagings ==
    {[i \in 1..Len(sizes) |->
         [j \in 1..sizes[i] |-> BootSources[SumTo(sizes, i - 1) + j]]] :
        sizes \in BootPageSizes}

\* The media a caller may ask for.
MediumInputs ==
    << <<"Hard-Disk">>, <<"Network">>, <<"CD/DVD">>, <<"Floppy">>, <<"CIM", ":">> >>

BOOT_SERVICE_NAME == "Intel(r) AMT Boot Service"

ServiceNames == {BOOT_SERVICE_NAME, "Boot Service"}

\* self.walk('CIM_BootSourceSetting')['CIM_BootSourceSetting']: one element
\* for each page that was pulled.
boot_walk(pgs) == [i \in 1..Len(pgs) |-> ItemsValue(pgs[i])]

\* for source in sources: if value in source['StructuredBootString']: ...
\* else: raise LookupError.  An element that is a list cannot be indexed by
\* a name.
RECURSIVE boot_lookup(_, _, _)
boot_lookup(value, sources, i) ==
    IF i > Len(sources)
    THEN [error |-> "LookupError", instance_id |-> ""]
    ELSE IF sources[i].kind # "instance"
         THEN [error |-> "TypeError", instance_id |-> ""]
         ELSE IF IsSubstring(value, sources[i].val[1].StructuredBootString)
              THEN [error |-> "", instance_id |-> sources[i].val[1].InstanceID]
              ELSE boot_lookup(value, sources, i + 1)

\* The keywords the setter passes to invoke_method for ChangeBootOrder.
ChangeBootOrderKwargs ==
    {"service_name", "resource_name", "affected_item", "method_name", "options",
     "client", "selector"}

\* The keywords _set_boot_config_role passes for SetBootConfigRole.
SetBootConfigRoleKwargs ==
    {"service_name", "resource_name", "affected_item", "method_name", "options",
     "client", "selector", "args_after"}

BootStages == {"settings", "enumerate", "pull", "config", "invoke", "service"}

\* The outcome of a request of the setter: the transport misbehaves (k, fault)
\* at the request named stage, and serves every other one.
BootOutcome(at, stage, op, k, fault) ==
    IF at = stage THEN Outcome(op, k, fault) ELSE "return"

BootParked ==
    /\ b_pages = <<>>
    /\ b_service = ""
    /\ b_pc = "parked"
    /\ b_value = <<>>
    /\ b_instance = ""
    /\ b_order = NoResult
    /\ b_reqs = <<>>
    /\ b_error = ""

BootInit ==
    /\ dev = DefaultDev
    /\ b_pages \in BootPagings
    /\ b_service \in ServiceNames
    /\ b_pc = "idle"
    /\ b_value = <<>>
    /\ b_instance = ""
    /\ b_order = NoResult
    /\ b_reqs = <<>>
    /\ b_error = ""

bootOthers == <<txnVars, pagerVars, invokeVars, powerVars, kvmVars, redirVars,
                optVars, putVars>>

\* One invocation through common.invoke_method: the request that goes out and
\* how the call ends.
boot_invoke(kwargs, method_name, selector, at, k, fault, rv) ==
    IF ~InvokeAccepts(kwargs)
    THEN [reqs |-> <<>>,
          res |-> [status |-> "raised", error |-> "TypeError", value |-> 0]]
    ELSE LET reply == [kind |-> "doc", fault |-> at = "invoke" /\ fault,
                       method |-> method_name, rv |-> rv]
             r == wsman_call("invoke", IF at = "invoke" THEN k ELSE 0, reply, FALSE, 0)
         IN [reqs |-> << Request("invoke", method_name, selector) >>,
             res |-> invoke_return(method_name, r)]

\* The setter up to the end of its search: the get of AMT_BootSettingData,
\* the walk of CIM_BootSourceSetting (a pull that fails is the first one) and
\* the for/else over the sources.
BootLookup(value, at, k, fault) ==
    /\ b_pc = "idle"
    /\ b_value' = value
    /\ LET settings == BootOutcome(at, "settings", "get", k, fault)
           enumerated == BootOutcome(at, "enumerate", "enumerate", k, fault)
           pulled == BootOutcome(at, "pull", "pull", k, fault)
           pulls == [i \in 1..(IF pulled = "return" THEN Len(b_pages) ELSE 1) |->
                        Request("pull", "CIM_BootSourceSetting", NoPayload)]
           found == boot_lookup(value, boot_walk(b_pages), 1)
           get == << Request("get", "AMT_BootSettingData", NoPayload) >>
           enum == << Request("enumerate", "CIM_BootSourceSetting", NoPayload) >>
       IN IF settings # "return"
          THEN /\ b_reqs' = get
               /\ b_pc' = "raised" /\ b_error' = settings /\ b_instance' = b_instance
          ELSE IF enumerated # "return"
          THEN /\ b_reqs' = get \o enum
               /\ b_pc' = "raised" /\ b_error' = enumerated /\ b_instance' = b_instance
          ELSE /\ b_reqs' = get \o enum \o pulls
               /\ IF pulled # "return"
                  THEN b_pc' = "raised" /\ b_error' = pulled /\ b_instance' = b_instance
                  ELSE IF found.error # ""
                  THEN b_pc' = "raised" /\ b_error' = found.error
                       /\ b_instance' = b_instance
                  ELSE b_pc' = "found" /\ b_error' = b_error
                       /\ b_instance' = found.instance_id
    /\ UNCHANGED <<dev, b_pages, b_service, b_order>>
    /\ UNCHANGED bootOthers

\* The get of CIM_BootConfigSetting and the invocation of ChangeBootOrder; the
\* device answers ReturnValue rv.
BootChangeOrder(at, k, fault, rv) ==
    /\ b_pc = "found"
    /\ LET config == BootOutcome(at, "config", "get", k, fault)
           config_instance == dev.CIM_BootConfigSetting.InstanceID
           inv == boot_invoke(ChangeBootOrderKwargs, "ChangeBootOrder",
                              <<"InstanceID", b_instance, config_instance>>,
                              at, k, fault, rv)
           get == << Request("get", "CIM_BootConfigSetting", NoPayload) >>
       IN IF config # "return"
          THEN /\ b_reqs' = b_reqs \o get
               /\ b_pc' = "raised" /\ b_error' = config /\ b_order' = b_order
          ELSE /\ b_reqs' = b_reqs \o get \o inv.reqs
               /\ b_order' = inv.res
               /\ b_error' = inv.res.error
               /\ b_pc' = (IF inv.res.status = "returned" THEN "ordered" ELSE "raised")
    /\ UNCHANGED <<dev, b_pages, b_service, b_value, b_instance>>
    /\ UNCHANGED bootOthers

\* _set_boot_config_role(): the get of CIM_BootService, the assertion on its
\* ElementName, and the invocation of SetBootConfigRole.
BootSetRole(at, k, fault, rv) ==
    /\ b_pc = "ordered"
    /\ LET svc == BootOutcome(at, "service", "get", k, fault)
           inv == boot_invoke(SetBootConfigRoleKwargs, "SetBootConfigRole",
                              <<"InstanceID", dev.CIM_BootConfigSetting.InstanceID>>,
                              at, k, fault, rv)
           get == << Request("get", "CIM_BootService", NoPayload) >>
       IN IF svc # "return"
          THEN /\ b_reqs' = b_reqs \o get
               /\ b_pc' = "raised" /\ b_error' = svc
          ELSE IF b_service # BOOT_SERVICE_NAME
          THEN /\ b_reqs' = b_reqs \o get
               /\ b_pc' = "raised" /\ b_error' = "AssertionError"
          ELSE /\ b_reqs' = b_reqs \o get \o inv.reqs
               /\ b_pc' = inv.res.status
               /\ b_error' = inv.res.error
    /\ UNCHANGED <<dev, b_pages, b_service, b_value, b_instance, b_order>>
    /\ UNCHANGED bootOthers

BootNext ==
    \/ \E i \in DOMAIN MediumInputs, at \in BootStages, k \in Fails, fault \in BOOLEAN :
           BootLookup(MediumInputs[i], at, k, fault)
    \/ \E at \in BootStages, k \in Fails, fault \in BOOLEAN, rv \in RVals :
           BootChangeOrder(at, k, fault, rv)
    \/ \E at \in BootStages, k \in Fails, fault \in BOOLEAN, rv \in RVals :
           BootSetRole(at, k, fault, rv)

\* The capabilities that have a specification of their own further down.
ExtParked == OptParked /\ BootParked /\ CapParked

(***************************************************************************)
(* Specifications.                                                         *)
(***************************************************************************)
InitTxn ==
    /\ TxnInit /\ PagerParked /\ InvokeParked
    /\ dev = DefaultDev /\ PowerParked /\ KvmParked /\ RedirParked /\ ExtParked

SpecTxn == InitTxn /\ [][TxnNext]_vars

InitPager ==
    /\ PagerInit /\ TxnParked /\ InvokeParked
    /\ dev = DefaultDev /\ PowerParked /\ KvmParked /\ RedirParked /\ ExtParked

SpecPager == InitPager /\ [][PagerNext]_vars

InitInvoke ==
    /\ InvokeInit /\ TxnParked /\ PagerParked
    /\ dev = DefaultDev /\ PowerParked /\ KvmParked /\ RedirParked /\ ExtParked

SpecInvoke == InitInvoke /\ [][InvokeNext]_vars

InitPower ==
    /\ PowerInit /\ KvmParked /\ RedirParked /\ ExtParked
    /\ TxnParked /\ PagerParked /\ InvokeParked

SpecPower == InitPower /\ [][PowerNext]_vars

InitKvm ==
    /\ KvmInit /\ PowerParked /\ RedirParked /\ ExtParked
    /\ TxnParked /\ PagerParked /\ InvokeParked

SpecKvm == InitKvm /\ [][KvmNext]_vars

InitRedir ==
    /\ RedirInit /\ PowerParked /\ KvmParked /\ ExtParked
    /\ TxnParked /\ PagerParked /\ InvokeParked

SpecRedir == InitRedir /\ [][RedirNext]_vars

InitOpt ==
    /\ OptInit /\ BootParked /\ CapParked /\ PowerParked /\ KvmParked /\ RedirParked
    /\ TxnParked /\ PagerParked /\ InvokeParked

SpecOpt == InitOpt /\ [][OptNext]_vars

InitBoot ==
    /\ BootInit /\ OptParked /\ CapParked /\ PowerParked /\ KvmParked /\ RedirParked
    /\ TxnParked /\ PagerParked /\ InvokeParked

SpecBoot == InitBoot /\ [][BootNext]_vars

InitCap ==
    /\ CapInit /\ OptParked /\ BootParked /\ PowerParked /\ KvmParked /\ RedirParked
    /\ TxnParked /\ PagerParked /\ InvokeParked

SpecCap == InitCap /\ [][CapNext]_vars

(***************************************************************************)
(* Claims about the transaction layer (SpecTxn).                           *)
(***************************************************************************)
TxnDone == t_pc \in {"returned", "raised"}

\* C3 (retry bound): an operation never makes more than RETRY_LIMIT transport
\* calls; it goes on calling only while every call so far returned no document;
\* when the transport fails k < RETRY_LIMIT times and then delivers a document
\* the operation ends after k + 1 calls, returning the document when it is no
\* fault; when the transport fails RETRY_LIMIT times the operation raises
\* AMTConnectFailure after exactly RETRY_LIMIT calls.
RetryBound ==
    /\ t_attempts <= RETRY_LIMIT
    /\ (t_pc = "calling" => t_attempts < RETRY_LIMIT /\ t_fails = t_attempts)
    /\ (TxnDone /\ ~IsNone(t_last) => t_fails < RETRY_LIMIT /\ t_attempts = t_fails + 1)
    /\ (TxnDone /\ ~IsNone(t_last) /\ ~t_last.fault =>
            t_pc = "returned" /\ t_result.outcome = "return" /\ t_result.doc = t_last)
    /\ (t_pc = "returned" => ~IsNone(t_last) /\ t_attempts = t_fails + 1)
    /\ (t_fails = RETRY_LIMIT =>
            t_pc = "raised" /\ t_result.outcome = "AMTConnectFailure"
            /\ t_attempts = RETRY_LIMIT)
    /\ (t_pc = "raised" /\ t_result.outcome = "AMTConnectFailure" =>
            t_attempts = RETRY_LIMIT /\ t_fails = RETRY_LIMIT)

\* The transport failed RETRY_LIMIT - 1 times and the operation then succeeded.
RetryBoundWitness ==
    /\ t_pc = "returned"
    /\ t_fails = RETRY_LIMIT - 1
    /\ t_attempts = RETRY_LIMIT
    /\ t_op = "get"

\* C4 (fault suppression): once an operation has ended on a delivered document,
\* a fault document is returned as it came when silent is true and raised as
\* WSManFault carrying it when silent is false; a document that is no fault is
\* returned as it came in both modes.
FaultSuppression ==
    TxnDone /\ ~IsNone(t_last) =>
        /\ t_result.doc = t_last
        /\ (t_last.fault /\ t_silent => t_pc = "returned" /\ t_result.outcome = "return")
        /\ (t_last.fault /\ ~t_silent => t_pc = "raised" /\ t_result.outcome = "WSManFault")
        /\ (~t_last.fault => t_pc = "returned" /\ t_result.outcome = "return")

\* A silent put returned the fault document the transport delivered.
FaultSuppressionWitness ==
    /\ t_pc = "returned"
    /\ t_op = "put"
    /\ t_silent
    /\ t_last.fault
    /\ t_result.doc = t_last

\* C5 (connect failure is never suppressed): after a transport call that
\* returned no document the operation has not returned, whatever silent is: it
\* is retrying or has raised AMTConnectFailure; no operation returns a missing
\* document.
ConnectFailureNotSuppressed ==
    /\ (t_attempts > 0 /\ IsNone(t_last) =>
            /\ t_pc \in {"calling", "raised"}
            /\ (t_pc = "raised" => t_result.outcome = "AMTConnectFailure"))
    /\ (t_pc = "returned" => ~IsNone(t_result.doc))

\* A silent operation ended with AMTConnectFailure.
ConnectFailureWitness ==
    /\ t_pc = "raised"
    /\ t_silent
    /\ IsNone(t_last)
    /\ t_result.outcome = "AMTConnectFailure"

\* C17 (no retry on a delivered fault): an attempt on which the transport
\* delivers a fault document is the operation's last: the fault is raised, or
\* returned when silent, after that one response; the transport is called again
\* only after an attempt that returned no document.
NoRetryOnFault ==
    [][ t_attempts' = t_attempts + 1 =>
          /\ (t_last'.kind = "doc" /\ t_last'.fault) =>
                 /\ t_pc' = (IF t_silent THEN "returned" ELSE "raised")
                 /\ t_result'.outcome = (IF t_silent THEN "return" ELSE "WSManFault")
                 /\ t_result'.doc = t_last'
          /\ t_pc' = "calling" => IsNone(t_last')
          /\ t_pc = "calling" ]_vars

\* A fault delivered after one connection failure ended the operation with
\* attempts to spare.
NoRetryOnFaultWitness ==
    /\ t_pc = "raised"
    /\ t_last.kind = "doc"
    /\ t_last.fault
    /\ t_fails = 1
    /\ t_attempts = 2
    /\ t_attempts < RETRY_LIMIT
    /\ t_result.outcome = "WSManFault"

(***************************************************************************)
(* Claims about the pager (SpecPager).                                     *)
(***************************************************************************)
\* C1 (pagination completeness): when enumerate_resource returns, its output is
\* the concatenation, in page order, of the items of the pages it was served.
PaginationCompleteness ==
    e_pc = "returned" =>
        LET cat == Concat(pages, srv_pos)
        IN output = [i \in 1..Len(cat) |-> Instance(cat[i])]

\* C2 (pull count and short-circuit): a run makes one enumerate call, before any
\* pull; it returns after exactly N pulls, where page N is the first to report
\* end-of-sequence; it never pulls after end-of-sequence was served; every pull
\* carries the context token the enumerate call returned.
PullCount ==
    /\ enum_calls <= 1
    /\ (e_pc = "start" => enum_calls = 0 /\ pull_calls = 0)
    /\ (e_pc # "start" => enum_calls = 1)
    /\ pull_calls <= FirstEos(pages)
    /\ (e_pc = "returned" => pull_calls = FirstEos(pages))
    /\ ~pull_after_eos
    /\ pull_ctxs \subseteq {srv_ctx}

\* A run returned after two or more pulls and left a later page unserved.
PullCountWitness ==
    /\ e_pc = "returned"
    /\ pull_calls >= 2
    /\ pull_calls = FirstEos(pages)
    /\ Len(pages) > pull_calls
    /\ pull_ctxs = {srv_ctx}

\* C16 (pager failure): when the enumerate or a pull fails, enumerate_resource
\* leaves with that error (WSManFault or AMTConnectFailure); it then never
\* returns a value, the pages collected so far included, and issues no further
\* request.
PagerFailure ==
    [][ /\ (pull_calls' = pull_calls + 1 /\ srv_pos' = srv_pos) =>
               e_pc' = "raised" /\ e_error' \in TransportErrors
        /\ (enum_calls' = enum_calls + 1 /\ e_pc' # "pulling") =>
               e_pc' = "raised" /\ e_error' \in TransportErrors /\ pull_calls' = 0
        /\ e_pc' = "raised" => e_error' \in TransportErrors
        /\ e_pc = "raised" =>
               /\ e_pc' = "raised"
               /\ e_error' = e_error
               /\ pull_calls' = pull_calls
               /\ enum_calls' = enum_calls ]_vars

\* The second pull failed after the first page had been collected.
PagerFailureWitness ==
    /\ e_pc = "raised"
    /\ e_error = "WSManFault"
    /\ Len(output) = 1
    /\ pull_calls = 2

(***************************************************************************)
(* Claims about invoke_method (SpecInvoke).                                *)
(***************************************************************************)
\* C6 (invoke success contract): when the delivered response is the invoked
\* method's output, a ReturnValue of 0 makes invoke_method return without an
\* error and any other ReturnValue makes it raise NonZeroReturn carrying that
\* value; NonZeroReturn is raised in no other case.
InvokeSuccessContract ==
    /\ (i_req.sent /\ i_reply.kind = "doc" /\ ~i_reply.fault /\ i_reply.method = i_req.method =>
            /\ (i_reply.rv = 0 => i_pc = "returned" /\ i_result.error = "")
            /\ (i_reply.rv # 0 =>
                    /\ i_pc = "raised"
                    /\ i_result.error = "NonZeroReturn"
                    /\ i_result.value = i_reply.rv))
    /\ (i_pc = "returned" => i_req.sent /\ i_reply.kind = "doc" /\ i_reply.rv = 0)
    /\ (i_result.error = "NonZeroReturn" =>
            i_reply.kind = "doc" /\ i_reply.rv # 0 /\ i_result.value = i_reply.rv)

\* ChangeBootOrder answered ReturnValue 2 and NonZeroReturn(2) was raised.
InvokeSuccessWitness ==
    /\ i_pc = "raised"
    /\ i_req.method = "ChangeBootOrder"
    /\ i_reply.rv = 2
    /\ i_result.error = "NonZeroReturn"
    /\ i_result.value = 2

(***************************************************************************)
(* Claims about AMTPower (SpecPower).                                      *)
(***************************************************************************)
\* C7 (power toggle law): once toggle() has read and decoded the power state and
\* ended, it has sent RequestPowerStateChange with the off code (8) when the
\* primary state is 'on', with the on code (2) when it is 'off', and has raised
\* without sending a request for any other state.
PowerToggleLaw ==
    p_op = "toggle" /\ p_pc \in {"returned", "raised"} /\ p_state # NoState =>
        /\ (Primary(p_state) = "on" =>
                p_reqs = << [method |-> "RequestPowerStateChange", PowerState |-> 8] >>)
        /\ (Primary(p_state) = "off" =>
                p_reqs = << [method |-> "RequestPowerStateChange", PowerState |-> 2] >>)
        /\ (Primary(p_state) \notin {"on", "off"} => p_pc = "raised" /\ p_reqs = <<>>)

(***************************************************************************)
(* Claims about AMTKVM.enabled_ports (SpecKvm).                            *)
(***************************************************************************)
\* The setter has read ports and enabled.
KvmRead == k_pc \in {"loop", "returned", "raised"} /\ k_ports # <<>>

KvmNewly16995 == 16995 \in k_values /\ 16995 \notin k_enabled

\* C8 (KVM port dependency): once the setter has read the current enablement,
\* a target holding a port outside {5900, 16994, 16995}, or newly enabling 16995
\* without 16994, has raised ValueError with no put issued; a target newly
\* enabling 16995 with 16994 on a device whose TLS is not enabled has raised
\* with no put issued, with ValueError unless the walk of the TLS setting
\* itself failed.
KvmPortDependency ==
    KvmRead =>
        /\ (k_values \ {5900, 16994, 16995} # {} =>
                k_pc = "raised" /\ k_error = "ValueError" /\ k_puts = <<>>)
        /\ (KvmNewly16995 /\ 16994 \notin k_values =>
                k_pc = "raised" /\ k_error = "ValueError" /\ k_puts = <<>>)
        /\ (KvmNewly16995 /\ 16994 \in k_values /\ ~dev.AMT_TLSSettingData.Enabled =>
                /\ k_pc = "raised"
                /\ k_error \in {"ValueError"} \cup TransportErrors
                /\ k_puts = <<>>)

\* {16994, 16995} was asked of a device without TLS: ValueError, no put.
KvmPortDependencyWitness ==
    /\ KvmRead
    /\ k_values = {16994, 16995}
    /\ ~dev.AMT_TLSSettingData.Enabled
    /\ k_pc = "raised"
    /\ k_error = "ValueError"
    /\ k_puts = <<>>

\* C19 (KVM enablement decoding): a read of enabled returns True when the
\* device's EnabledState is 2 or 6 and False when it is 3; for every other code
\* it raises KeyError and returns no value.
KvmEnablementDecoding ==
    LET e_state == dev.CIM_KVMRedirectionSAP.EnabledState
    IN k_read.error \notin {"unread"} \cup TransportErrors =>
           IF e_state \in {2, 6}
           THEN k_pc = "read" /\ k_read.error = "" /\ k_read.state = TRUE
           ELSE IF e_state = 3
           THEN k_pc = "read" /\ k_read.error = "" /\ k_read.state = FALSE
           ELSE k_pc = "raised" /\ k_read.error = "KeyError" /\ k_error = "KeyError"

\* EnabledState 6, 'Enabled But Offline', was read as True.
KvmEnablementDecodingWitness ==
    /\ k_pc = "read"
    /\ dev.CIM_KVMRedirectionSAP.EnabledState = 6
    /\ k_read.error = ""
    /\ k_read.state = TRUE

PortOf(put) == IF put.resource = "IPS_KVMRedirectionSettingData" THEN 5900 ELSE 16994

PutPorts == {PortOf(k_puts[i]) : i \in DOMAIN k_puts}

\* C9 as claimed (KVM port update): a setter that passed validation and returned
\* has issued exactly one put for each port of the symmetric difference of the
\* current enablement and the target, and no other put.
KvmPortUpdateAllPorts ==
    k_pc = "returned" =>
        /\ PutPorts = SymDiff(k_enabled, k_values)
        /\ Len(k_puts) = Cardinality(SymDiff(k_enabled, k_values))

\* C9 as amended: every put the setter issues is for port 5900 or 16994, for a
\* port whose membership differs between the current enablement and the target,
\* carries the target membership, and is issued once; a setter that returned
\* has issued one for each such port of the two.  Port 16995 gets no put.
KvmPortUpdate ==
    /\ \A i \in DOMAIN k_puts :
           /\ PortOf(k_puts[i]) \in SymDiff(k_enabled, k_values) \cap {5900, 16994}
           /\ k_puts[i].value = (PortOf(k_puts[i]) \in k_values)
           /\ k_puts[i] = kvm_put(PortOf(k_puts[i]), k_puts[i].value)[1]
           /\ \A j \in DOMAIN k_puts : i # j => PortOf(k_puts[i]) # PortOf(k_puts[j])
    /\ (k_pc = "returned" =>
            /\ PutPorts = SymDiff(k_enabled, k_values) \cap {5900, 16994}
            /\ Len(k_puts) = Cardinality(PutPorts))

\* All three ports were asked of a device with none enabled and TLS enabled:
\* the setter returned after two puts.
KvmPortUpdateWitness ==
    /\ k_pc = "returned"
    /\ k_enabled = {}
    /\ k_values = {5900, 16994, 16995}
    /\ Len(k_puts) = 2

(***************************************************************************)
(* Claims about AMTRedirection.enabled_features (SpecRedir).               *)
(***************************************************************************)
\* C10 (redirection round trip): after a write of a list whose members are
\* exactly one of {}, {SoL}, {IDER}, {SoL, IDER}, the device holds the code
\* 32768 + (1 if IDER) + (2 if SoL), four distinct codes for the four sets, and
\* a read of enabled_features that follows returns exactly the set written.
RedirectionRoundTrip ==
    r_pc \in {"written", "read_back"} /\ ToSet(r_features) \in ValidFeatureSets =>
        /\ dev.AMT_RedirectionService.EnabledState =
               32768 + (IF "IDER" \in ToSet(r_features) THEN 1 ELSE 0)
                     + (IF "SoL" \in ToSet(r_features) THEN 2 ELSE 0)
        /\ (r_pc = "read_back" =>
                r_read.error = "" /\ r_read.enabled = ToSet(r_features))

\* ['IDER', 'SoL'] was written and read back.
RedirectionRoundTripWitness ==
    /\ r_pc = "read_back"
    /\ r_features = <<"IDER", "SoL">>
    /\ r_read.error = ""
    /\ r_read.enabled = {"SoL", "IDER"}

\* C11 (redirection write validation): a write of a collection whose members
\* are not exactly one of {}, {SoL}, {IDER}, {SoL, IDER} fails and issues no put.
RedirWriteValidation ==
    ToSet(r_features) \notin ValidFeatureSets =>
        r_pc = "raised" /\ r_puts = <<>>

\* C18 (redirection decode errors): a read of enabled_features from a device
\* whose EnabledState is not one of 32768, 32769, 32770, 32771 returns no
\* feature set: it raises LookupError when the code is a key of the state
\* table and KeyError when it is not.
RedirDecodeErrors ==
    LET state == dev.AMT_RedirectionService.EnabledState
    IN (r_pc \in {"read", "read_back"} /\ state \notin 32768..32771) =>
           r_read.error = (IF state \in StateMappingKeys THEN "LookupError" ELSE "KeyError")

(***************************************************************************)
(* Claims about AMTOptIn (SpecOpt).                                        *)
(***************************************************************************)
OptPuts == {i \in DOMAIN o_reqs : o_reqs[i].op = "put"}

\* C12 (opt-in TTL bounds): setting code_ttl to a value of type int in 60..900,
\* 60 and 900 included, passes validation and, unless the transport fails,
\* returns after one put of IPS_OptInService that carries OptInCodeTimeout with
\* that value; every other value (below 60, above 900, or not an int) fails
\* with TypeError and no request of any kind is sent.
OptInTtlBounds ==
    o_op = "code_ttl" =>
        IF o_value.type = "int" /\ o_value.items[1] \in 60..900
        THEN /\ o_error \in TransportErrors \cup {""}
             /\ \A i \in OptPuts :
                    /\ o_reqs[i].resource = "IPS_OptInService"
                    /\ o_reqs[i].payload.OptInCodeTimeout = o_value.items[1]
             /\ o_error = "" =>
                    /\ o_pc = "returned"
                    /\ Cardinality(OptPuts) = 1
                    /\ dev.IPS_OptInService.OptInCodeTimeout = o_value.items[1]
        ELSE /\ o_pc = "raised"
             /\ o_error = "TypeError"
             /\ o_reqs = <<>>
             /\ dev = DefaultDev

\* code_ttl = 900 was put; the bounds 59, 60 and 901 are inputs of the same
\* action.
OptInTtlBoundsWitness ==
    /\ o_op = "code_ttl"
    /\ o_pc = "returned"
    /\ o_value.type = "int"
    /\ o_value.items[1] = 900
    /\ dev.IPS_OptInService.OptInCodeTimeout = 900

RecognizedLabel(value) ==
    \/ value.type = "NoneType"
    \/ value.type = "str" /\ value.items[1] \in {"KVM", "All"}

LabelCode(value) ==
    IF value.type = "NoneType" THEN Code32(0, 0)
    ELSE IF value.items[1] = "KVM" THEN Code32(0, 1)
    ELSE Code32(65535, 65535)

\* C13 (opt-in consent level): setting required to a label outside
\* {None, 'KVM', 'All'} raises KeyError before any request is sent and leaves
\* the selection as it was; setting a recognized label puts OptInRequired with
\* the label's code (None 0, 'KVM' 1, 'All' 4294967295), and the selection
\* becomes that label only once the put has succeeded.
OptInConsentLevel ==
    [][ o_op' = "required" /\ o_pc = "idle" =>
          IF RecognizedLabel(o_value')
          THEN /\ o_error' \in TransportErrors \cup {""}
               /\ \A i \in DOMAIN o_reqs' :
                      o_reqs'[i].op = "put" =>
                          /\ o_reqs'[i].resource = "IPS_OptInService"
                          /\ o_reqs'[i].payload.OptInRequired = LabelCode(o_value')
               /\ o_error' # "" => o_selected' = o_selected
               /\ o_error' = "" =>
                      /\ o_pc' = "returned"
                      /\ \E i \in DOMAIN o_reqs' : o_reqs'[i].op = "put"
                      /\ dev'.IPS_OptInService.OptInRequired = LabelCode(o_value')
                      /\ o_selected' = o_value'
          ELSE /\ o_pc' = "raised"
               /\ o_error' = "KeyError"
               /\ o_reqs' = <<>>
               /\ o_selected' = o_selected
               /\ dev' = dev ]_vars

\* 'All' was selected by a put of 4294967295.
OptInConsentLevelWitness ==
    /\ o_op = "required"
    /\ o_pc = "returned"
    /\ o_value.type = "str"
    /\ o_value.items[1] = "All"
    /\ o_selected = o_value
    /\ dev.IPS_OptInService.OptInRequired = Code32(65535, 65535)

(***************************************************************************)
(* Claims about AMTBoot.medium (SpecBoot).                                 *)
(***************************************************************************)
BootInvokes == {i \in DOMAIN b_reqs : b_reqs[i].op = "invoke"}

\* The medium asked for is contained in the structured string of none of the
\* device's boot sources.
BootUnsupported ==
    \A i \in DOMAIN b_pages : \A j \in DOMAIN b_pages[i] :
        ~IsSubstring(b_value, b_pages[i][j].StructuredBootString)

\* C14 (boot medium lookup): setting the medium to a string that no boot
\* source's StructuredBootString contains raises LookupError (unless a request
\* before the search failed), and no method is invoked.
BootMediumLookup ==
    b_pc # "idle" /\ BootUnsupported =>
        /\ b_pc = "raised"
        /\ b_error \in {"LookupError"} \cup TransportErrors
        /\ BootInvokes = {}

BootIsInvoke(i, method_name) ==
    b_reqs[i].op = "invoke" /\ b_reqs[i].resource = method_name

BootDone == b_pc \in {"returned", "raised"}

\* C15 (boot two-phase ordering): a boot medium change invokes ChangeBootOrder
\* and then SetBootConfigRole: SetBootConfigRole goes out only after
\* ChangeBootOrder returned 0 and the ElementName of CIM_BootService was read
\* and found to be 'Intel(r) AMT Boot Service', and it does go out once both
\* have happened; a failure of a later step propagates, and nothing is sent
\* after ChangeBootOrder but the read of CIM_BootService and SetBootConfigRole.
BootTwoPhaseOrdering ==
    /\ \A i \in DOMAIN b_reqs :
           BootIsInvoke(i, "SetBootConfigRole") =>
               /\ b_order.status = "returned"
               /\ b_service = BOOT_SERVICE_NAME
               /\ \E j \in 1..(i - 1) : BootIsInvoke(j, "ChangeBootOrder")
               /\ \E j \in 1..(i - 1) :
                      b_reqs[j].op = "get" /\ b_reqs[j].resource = "CIM_BootService"
    /\ \A j \in DOMAIN b_reqs :
           BootIsInvoke(j, "ChangeBootOrder") =>
               \A i \in (j + 1)..Len(b_reqs) :
                   \/ BootIsInvoke(i, "SetBootConfigRole")
                   \/ b_reqs[i].op = "get" /\ b_reqs[i].resource = "CIM_BootService"
    /\ b_pc = "raised" => b_error # ""
    /\ (/\ BootDone
        /\ b_order.status = "returned"
        /\ b_service = BOOT_SERVICE_NAME
        /\ b_error \notin TransportErrors)
           => \E i \in DOMAIN b_reqs : BootIsInvoke(i, "SetBootConfigRole")

(***************************************************************************)
(* Claims about DeviceCapability.put (SpecCap).                            *)
(***************************************************************************)
\* C20 (capability put merge): with as_update, put sends one get of the
\* resource and, when the get succeeds, one put of it whose payload is the
\* resource as the device holds it with exactly the input's fields
\* overwritten; without as_update it sends no get, and one put whose payload
\* holds the input's fields only.
CapPutMerge ==
    [][ c_pc = "idle" /\ c_pc' # "idle" =>
          LET name == cap_resource_name(c_args'.resource_name)
              input == c_args'.input_dict
              held == dev[name]
              last == c_reqs'[Len(c_reqs')]
          IN /\ \A i \in DOMAIN c_reqs' : c_reqs'[i].resource = name
             /\ IF c_args'.as_update
                THEN /\ Len(c_reqs') \in {1, 2}
                     /\ c_reqs'[1].op = "get"
                     /\ Len(c_reqs') = 1 => c_pc' = "raised"
                     /\ Len(c_reqs') = 2 =>
                            /\ last.op = "put"
                            /\ DOMAIN last.payload = DOMAIN held \cup DOMAIN input
                            /\ \A f \in DOMAIN input : last.payload[f] = input[f]
                            /\ \A f \in DOMAIN held \ DOMAIN input :
                                   last.payload[f] = held[f]
                ELSE /\ Len(c_reqs') = 1
                     /\ last.op = "put"
                     /\ DOMAIN last.payload = DOMAIN input
                     /\ \A f \in DOMAIN input : last.payload[f] = input[f]
             /\ c_pc' = "returned" => last.op = "put" ]_vars

\* EnabledState alone was put as an update: the payload keeps the device's
\* ListenerEnabled.
CapPutMergeWitness ==
    /\ c_pc = "returned"
    /\ c_args.as_update
    /\ c_args.resource_name = "AMT_RedirectionService"
    /\ DOMAIN c_args.input_dict = {"EnabledState"}
    /\ Len(c_reqs) = 2
    /\ c_reqs[2].payload.EnabledState = 32771
    /\ c_reqs[2].payload.ListenerEnabled = TRUE
    /\ dev.AMT_RedirectionService.EnabledState = 32771

\* C21: invoke_method works on a copy of the caller's options.  After any
\* invocation, one with a three element selector included, the caller's shared
\* options carry no selector, and every later request made through them goes
\* out with no selector but the one that request itself registers.
OwnSelectors(selector) ==
    IF Len(selector) = 3 THEN {<<selector[1], selector[3]>>} ELSE {}

OptionsIsolation ==
    /\ options.selectors = {}
    /\ \A i \in DOMAIN i_log : i_log[i].options.selectors = OwnSelectors(i_log[i].selector)

OptionsIsolationWitness ==
    /\ i_req.sent
    /\ Len(i_req.selector) = 3
    /\ i_req.options.selectors = {<<"InstanceID", "cfg-0">>}
    /\ Len(i_log) = MaxLater
    /\ i_log[1].op = "get"
    /\ i_log[2].op = "invoke"
    /\ i_log[2].selector = <<>>

\* C22: the copy made by copy_client_options reports the same settings as the
\* original options, the original keeps its settings, and so an invocation is
\* sent with the settings the caller configured.
OptionsCopyFidelity ==
    /\ copy_client_options(options).flags = options.flags
    /\ (i_req.sent => /\ i_req.options.flags = options.flags
                      /\ options.flags = invoke_caller_options(options, i_req.selector).flags)
    /\ \A i \in DOMAIN i_log :
           i_log[i].op = "invoke" => i_log[i].options.flags = options.flags

\* C23 (KVM port read invariant): whatever the device's Is5900PortEnabled,
\* ListenerEnabled and TLS Enabled fields are, the enablement a read of
\* enabled_ports returns is a subset of {5900, 16994, 16995} that holds 16995
\* only with 16994, holds 5900 exactly when Is5900PortEnabled and holds 16994
\* exactly when ListenerEnabled.
KvmPortReadInvariant ==
    k_map.error = "" =>
        /\ k_map.enabled \subseteq {5900, 16994, 16995}
        /\ (16995 \in k_map.enabled => 16994 \in k_map.enabled)
        /\ (5900 \in k_map.enabled <=> dev.IPS_KVMRedirectionSettingData.Is5900PortEnabled)
        /\ (16994 \in k_map.enabled <=> dev.AMT_RedirectionService.ListenerEnabled)

\* A device with TLS enabled and neither port field set was read: no port.
KvmPortReadWitness ==
    /\ k_pc = "got"
    /\ k_map.error = ""
    /\ ~k_map.after_set
    /\ dev.AMT_TLSSettingData.Enabled
    /\ ~dev.AMT_RedirectionService.ListenerEnabled
    /\ k_map.enabled = {}

\* C24 (KVM port set/get round trip): on a device that applies every put and
\* is not changed otherwise, a read of enabled_ports after the setter returned
\* for a target set returns exactly that set.
KvmPortRoundTrip ==
    k_map.error = "" /\ k_map.after_set => k_map.enabled = k_values

\* The positions, in enumeration order, of the device's boot sources whose
\* structured string contains the medium asked for.
BootMatches ==
    LET all == [i \in 1..SumTo([p \in DOMAIN b_pages |-> Len(b_pages[p])], Len(b_pages)) |->
                   LET pg == CHOOSE p \in DOMAIN b_pages :
                                 /\ SumTo([q \in DOMAIN b_pages |-> Len(b_pages[q])], p - 1) < i
                                 /\ i <= SumTo([q \in DOMAIN b_pages |-> Len(b_pages[q])], p)
                   IN b_pages[pg][i - SumTo([q \in DOMAIN b_pages |-> Len(b_pages[q])], pg - 1)]]
    IN [all |-> all,
        at |-> {i \in DOMAIN all : IsSubstring(b_value, all[i].StructuredBootString)}]

BootOrders == {i \in DOMAIN b_reqs : BootIsInvoke(i, "ChangeBootOrder")}

\* C25 (boot source selection): when several boot sources contain the medium
\* asked for, the setter, unless a request before the invocation failed in the
\* transport, invokes ChangeBootOrder exactly once, on the InstanceID of the
\* first of them in enumeration order; no request of the setter is a put.
BootSourceSelection ==
    /\ \A i \in DOMAIN b_reqs : b_reqs[i].op # "put"
    /\ (b_pc # "idle" /\ Cardinality(BootMatches.at) > 1 =>
            /\ Cardinality(BootOrders) <= 1
            /\ \A i \in BootOrders :
                   b_reqs[i].payload[2] =
                       BootMatches.all[CHOOSE m \in BootMatches.at :
                                          \A n \in BootMatches.at : m <= n].InstanceID
            /\ (b_pc \in {"ordered", "returned", "raised"}
                    /\ ~(b_error \in TransportErrors /\ BootOrders = {})
                => Cardinality(BootOrders) = 1))

====
